---- MODULE Spec2Model ----
(***************************************************************************)
(* A model of swdunlop/ollama-client: the conversation loop (ollama.Chat), *)
(* the exchange it performs (Client.Do), the toolkit dispatch              *)
(* (toolkit.Call) and the invoker (tool.Call).                             *)
(*                                                                         *)
(* Go values are modelled as records so that any two of them can be        *)
(* compared: a nil pointer, a nil error and a nil interface are Nil.       *)
(***************************************************************************)
EXTENDS Integers, Sequences, FiniteSets, TLC

VARIABLES
    pc,         \* where Chat is: "Sending", "AwaitingResponse", "Dispatching", "Terminal"
    client,     \* the Client found in the context: its hook lists
    toolkit,    \* req.Toolkit(): Nil or the toolkit bound to the request
    req,        \* the chat.Request built from the options; req.Messages is the history
    rsp,        \* the response decoded by the latest successful exchange (Nil before)
    i,          \* index in rsp.Message.ToolCalls of the call the range loop is at
    ret,        \* what Chat returned: [rsp, err] (Nil, Nil while it runs)
    cancelled,  \* whether the caller's context has been cancelled
    sent,       \* history: the request body of every exchange handed to the HTTP client
    received,   \* history: every response a successful exchange decoded
    doErr,      \* history: the error returned by the latest Client.Do (Nil: none)
    dispatched, \* history: every tool call handed to toolkit.Call, with what it returned
    invoked,    \* history: every invocation tool.Call made of a bound callable
    newPc,      \* where tool.New is: "Idle", "Options", "Fixups", "Validate", "Returned"
    newOptions, \* the options passed to tool.New, in order
    newAt,      \* index of the option, or of the fixup, the loop of tool.New is at
    newTool,    \* the *tool that tool.New builds
    newRet,     \* what tool.New returned: [tool, err]
    newLog,     \* history: the options and fixups applied, with the tool before and after
    regPc,      \* "Idle", or "Built" once toolkit.New has returned
    heap,       \* the backing array of every slice of tools, by reference
    registry,   \* the *toolkit: [list: a reference in heap, table]
    slices,     \* the references the callers hold: the slice given to New, those Tools returned
    regLog,     \* history: what every Call and Tools of the toolkit returned
    callPc,     \* where tool.Call is: "Idle", "Decode", "Invoke", "Return", "Returned", "Panicked"
    callTool,   \* the *tool that is called
    callParameters, \* the raw parameters of the call
    callQ,      \* q: the value decoded from the parameters
    callOut,    \* ret: what the callable returned
    callRet,    \* what tool.Call returned: [content, err]
    callLog,    \* history: every t.fn.Call, with its arguments and whether the callable ran
    codecPc,    \* where the codec run is: "Idle", "Start", "Encoded", "Decoded"
    codecValue, \* the struct of Optional fields that is encoded (Nil: the run starts from a text)
    codecJs,    \* the JSON text: what json.Marshal returned, or the text given
    codecOut,   \* what json.Unmarshal of the text returned: [err, value]
    doPc,       \* where Client.Do is: "Idle", "RequestHooks", "Send", "ResponseHooks", "Decode", "Returned"
    doClient,   \* the Client whose Do runs: its hook lists
    doFailing,  \* the hooks that return an error in this exchange
    doAt,       \* index of the hook the loop of Do is at
    doOutcome,  \* what http.DefaultClient.Do gave: Nil before, then "refused", "status" or "ok"
    doLog,      \* history: the hooks applied and the request sent, in order
    doRet,      \* the error Do returned (Nil: none, or not yet)
    hookArrays, \* the backing array of every slice of hooks, by reference: cells up to its capacity
    clients,    \* every *Client there is: its two slices of hooks, and how it was made
    built,      \* history: the hooks each client had when it was made
    withRet     \* history: the latest With: the context given, the options, the context returned

\* the state of ollama.Chat
chatVars == <<pc, client, toolkit, req, rsp, i, ret, cancelled,
              sent, received, doErr, dispatched, invoked>>
\* the state of tool.New
toolVars == <<newPc, newOptions, newAt, newTool, newRet, newLog>>
\* the state of a toolkit and of the slices of its callers
registryVars == <<regPc, heap, registry, slices, regLog>>

\* the state of tool.Call
callVars == <<callPc, callTool, callParameters, callQ, callOut, callRet, callLog>>

\* the state of a run of the codec of tool.Optional
codecVars == <<codecPc, codecValue, codecJs, codecOut>>

\* the state of one Client.Do
doVars == <<doPc, doClient, doFailing, doAt, doOutcome, doLog, doRet>>

\* the state of the clients and of their hook lists
clientVars == <<hookArrays, clients, built, withRet>>

vars == <<chatVars, toolVars, registryVars, callVars, codecVars, doVars, clientVars>>

(***************************************************************************)
(* Bounds of the model.                                                    *)
(***************************************************************************)
\* the most tool calls one response of the language model carries
MaxCalls == 2
\* the language model stops asking for tools once the history holds this many tool messages
MaxToolMessages == 3

Nil == [kind |-> "nil"]

Last(s) == s[Len(s)]

IsPrefix(s, t) == Len(s) <= Len(t) /\ SubSeq(t, 1, Len(s)) = s

\* the sequences over S of length 0..n
RECURSIVE SeqsUpTo(_, _)
SeqsUpTo(S, n) ==
    IF n = 0 THEN {<<>>}
    ELSE LET shorter == SeqsUpTo(S, n - 1)
         IN  shorter \cup {Append(s, x) : s \in {t \in shorter : Len(t) = n - 1}, x \in S}

(***************************************************************************)
(* Errors.  error.Error() is the text; %w keeps the wrapped cause.         *)
(***************************************************************************)
Errorf(text) == [kind |-> "error", text |-> text, cause |-> Nil]

Wrapf(cause, text) == [kind |-> "error", text |-> cause.text \o text, cause |-> cause]

\* the %q verb
Quote(s) == "\"" \o s \o "\""

(***************************************************************************)
(* encoding/json, on the values the model uses.  A JSON text is modelled   *)
(* by the value it denotes; JInvalid is a text that is not JSON.           *)
(***************************************************************************)
JStr(s) == [kind |-> "string", v |-> s]
JNum(n) == [kind |-> "number", v |-> n]
JNull == [kind |-> "null"]
JInvalid == [kind |-> "invalid"]
JObj(fields) == [kind |-> "object", fields |-> fields]

\* Go values
GoString(s) == [t |-> "string", v |-> s]
GoFloat(f) == [t |-> "float64", v |-> f]
GoTime(text) == [t |-> "time.Time", v |-> text]
GoStruct(fields) == [t |-> "struct", fields |-> fields]

\* the Optional generic of the tool package
None(zero) == [t |-> "Optional", present |-> FALSE, value |-> zero]

Some(value) == [t |-> "Optional", present |-> TRUE, value |-> value]

\* the zero value of a Go type
Zero(type) ==
    CASE type = "string" -> GoString("")
      [] type = "float64" -> GoFloat("0")
      [] type = "Optional[string]" -> None(GoString(""))

\* json.Unmarshal of js into a Go string holding old: null leaves it alone
UnmarshalString(js, old) ==
    CASE js.kind = "string" -> [err |-> Nil, value |-> GoString(js.v)]
      [] js.kind = "null" -> [err |-> Nil, value |-> old]
      [] OTHER -> [err |-> Errorf("json: cannot unmarshal " \o js.kind \o " into Go value of type string"),
                   value |-> old]

\* json.Unmarshal of js into a Go float64 holding old
UnmarshalFloat(js, old) ==
    CASE js.kind = "number" -> [err |-> Nil, value |-> GoFloat(js.v)]
      [] js.kind = "null" -> [err |-> Nil, value |-> old]
      [] OTHER -> [err |-> Errorf("json: cannot unmarshal " \o js.kind \o " into Go value of type float64"),
                   value |-> old]

\* (*Optional[T]).UnmarshalJSON for T = string: decode into a fresh T, then Some
UnmarshalJSON(js, old) ==
    LET r == UnmarshalString(js, GoString(""))
    IN  IF r.err # Nil THEN [err |-> r.err, value |-> old]
        ELSE [err |-> Nil, value |-> Some(r.value)]

\* json.Unmarshal of js into one struct field of the given type
UnmarshalField(type, js, old) ==
    CASE type = "string" -> UnmarshalString(js, old)
      [] type = "float64" -> UnmarshalFloat(js, old)
      [] type = "Optional[string]" -> UnmarshalJSON(js, old)

\* json.Unmarshal of a raw message into a new value of struct type inputType (a
\* function from field names to types): keys that name no field are ignored,
\* fields with no key keep their zero value, the first field error is returned
Unmarshal(js, inputType) ==
    LET zero == [f \in DOMAIN inputType |-> Zero(inputType[f])]
    IN  CASE js.kind = "invalid" ->
               [err |-> Errorf("invalid character 'x' looking for beginning of value"), value |-> GoStruct(zero)]
          [] js.kind = "null" -> [err |-> Nil, value |-> GoStruct(zero)]
          [] js.kind = "object" ->
               LET keys == DOMAIN js.fields \cap DOMAIN inputType
                   dec == [f \in keys |-> UnmarshalField(inputType[f], js.fields[f], zero[f])]
                   bad == {f \in keys : dec[f].err # Nil}
               IN  [err |-> IF bad = {} THEN Nil ELSE dec[CHOOSE f \in bad : TRUE].err,
                    value |-> GoStruct([f \in DOMAIN inputType |->
                                           IF f \in keys THEN dec[f].value ELSE zero[f]])]
          [] OTHER ->
               [err |-> Errorf("json: cannot unmarshal " \o js.kind \o " into Go value of type struct"),
                value |-> GoStruct(zero)]

\* json.Marshal of a Go value: a float that is not finite cannot be encoded
RECURSIVE Marshal(_)
Marshal(v) ==
    CASE v.t = "string" -> [err |-> Nil, js |-> JStr(v.v)]
      [] v.t = "time.Time" -> [err |-> Nil, js |-> JStr(v.v)]
      [] v.t = "float64" ->
           IF v.v \in {"+Inf", "-Inf", "NaN"}
           THEN [err |-> Errorf("json: unsupported value: " \o v.v), js |-> Nil]
           ELSE [err |-> Nil, js |-> JNum(v.v)]
      [] v.t = "Optional" ->
           IF v.present THEN Marshal(v.value) ELSE [err |-> Nil, js |-> JNull]
      [] v.t = "struct" ->
           LET enc == [f \in DOMAIN v.fields |-> Marshal(v.fields[f])]
               bad == {f \in DOMAIN v.fields : enc[f].err # Nil}
           IN  IF bad # {} THEN [err |-> enc[CHOOSE f \in bad : TRUE].err, js |-> Nil]
               ELSE [err |-> Nil, js |-> JObj([f \in DOMAIN v.fields |-> enc[f].js])]

(***************************************************************************)
(* The callables bound as tools, and the bound tools (the tool struct).    *)
(***************************************************************************)
\* time.LoadLocation knows these
Locations == {"UTC", "Europe/Dublin"}

\* time.Now(), encoded
Now == "2026-11-01T22:26:00Z"

\* func hello(q struct{Name string `json:"name"`}) (r struct{Hello string `json:"hello"`}, err error)
hello(q) == <<GoStruct([hello |-> q.fields.name]), Nil>>

\* func now(q struct{TimeZone tool.Optional[string]}) (t time.Time, err error)
now(q) ==
    IF q.fields.timeZone.present /\ q.fields.timeZone.value.v \notin Locations
    THEN <<GoTime("0001-01-01T00:00:00Z"), Errorf("unknown time zone " \o q.fields.timeZone.value.v)>>
    ELSE <<GoTime(Now), Nil>>

\* func ratio(q struct{A, B float64}) float64 { return q.A / q.B }, on the operands used
ratio(q) ==
    <<IF q.fields.b.v = "0"
      THEN GoFloat(IF q.fields.a.v = "0" THEN "NaN" ELSE "+Inf")
      ELSE IF q.fields.b.v = "1" THEN q.fields.a ELSE GoFloat("0.5")>>

\* reflect.Value.Call: t.fn called with args (the decoded struct last)
FnCall(fn, args) ==
    CASE fn = "hello" -> hello(Last(args))
      [] fn = "now" -> now(Last(args))
      [] fn = "ratio" -> ratio(Last(args))

\* the tools tool.New(tool.Func(f), ...) yields for these callables
helloTool ==
    [name |-> "hello", fn |-> "hello", inputType |-> [name |-> "string"],
     expectsContext |-> FALSE, returnsErrors |-> TRUE]

nowTool ==
    [name |-> "now", fn |-> "now", inputType |-> [timeZone |-> "Optional[string]"],
     expectsContext |-> FALSE, returnsErrors |-> TRUE]

ratioTool ==
    [name |-> "ratio", fn |-> "ratio", inputType |-> [a |-> "float64", b |-> "float64"],
     expectsContext |-> FALSE, returnsErrors |-> FALSE]

(***************************************************************************)
(* tool.Call, the invoker: [content, err] and the invocations it made of   *)
(* the callable.                                                           *)
(***************************************************************************)
ToolCall(t, ctx, parameters) ==
    LET q == Unmarshal(parameters, t.inputType)
        args == IF t.expectsContext THEN <<ctx, q.value>> ELSE <<q.value>>
        out == FnCall(t.fn, args)
        js == Marshal(out[1])
        made == <<[tool |-> t.name, args |-> args]>>
    IN  IF q.err # Nil
        THEN [content |-> Nil,
              err |-> Wrapf(q.err, " while parsing parameters for " \o Quote(t.name)),
              invocations |-> <<>>]
        ELSE IF t.returnsErrors /\ out[2] # Nil
        THEN [content |-> Nil, err |-> out[2], invocations |-> made]
        ELSE IF js.err # Nil
        THEN [content |-> Nil,
              err |-> Wrapf(js.err, " while formatting content for " \o Quote(t.name)),
              invocations |-> made]
        ELSE [content |-> js.js, err |-> Nil, invocations |-> made]

(***************************************************************************)
(* The toolkit: New, Call and Tools.                                       *)
(***************************************************************************)
\* the table toolkit.New builds: a later tool of the same name replaces an earlier one
RECURSIVE NewTable(_)
NewTable(tools) ==
    IF tools = <<>> THEN <<>>
    ELSE LET front == NewTable(SubSeq(tools, 1, Len(tools) - 1))
             tool == Last(tools)
         IN  [n \in DOMAIN front \cup {tool.name} |-> IF n = tool.name THEN tool ELSE front[n]]

ToolkitNew(tools) == [list |-> tools, table |-> NewTable(tools)]

Tools(tk) == tk.list

\* a variant that encodes the error under the key "message"
ErrorContentMessage(err) == JObj([message |-> JStr(err.text)])

\* the content a deferred function of Call gives the message when err is not nil:
\* json.Marshal of struct{Error string `json:"error"`}
ErrorContent(err) == JObj([error |-> JStr(err.text)])

\* a variant that leaves the role of the message unset
ToolMessageNoRole(content) == [role |-> "", content |-> content, toolCalls |-> <<>>]

\* ret.Role = protocol.TOOL, and the content Call gives it
ToolMessage(content) == [role |-> "tool", content |-> content, toolCalls |-> <<>>]

\* a variant that falls back to the first tool of the list for an unknown name
LookupFallback(tk, name) ==
    IF name \in DOMAIN tk.table THEN tk.table[name]
    ELSE IF tk.list # <<>> THEN tk.list[1] ELSE Nil

\* tk.table[name]: nil when the name is no key of the table
Lookup(tk, name) == IF name \in DOMAIN tk.table THEN tk.table[name] ELSE Nil

\* toolkit.Call: [ret, err], with the calls it made of tool.Call (invoker) and
\* the invocations those made of bound callables
ToolkitCall(tk, ctx, call) ==
    IF call.function = Nil
    THEN LET err == Errorf("only tool function calls are supported")
         IN  [ret |-> ToolMessage(ErrorContent(err)), err |-> err,
              invoker |-> <<>>, invocations |-> <<>>]
    ELSE LET tool == Lookup(tk, call.function.name)
         IN  IF tool = Nil
             THEN LET err == Errorf("tool " \o Quote(call.function.name) \o " not found")
                  IN  [ret |-> ToolMessage(ErrorContent(err)), err |-> err,
                       invoker |-> <<>>, invocations |-> <<>>]
             ELSE LET r == ToolCall(tool, ctx, call.function.arguments)
                  IN  [ret |-> ToolMessage(IF r.err # Nil THEN ErrorContent(r.err) ELSE r.content),
                       err |-> r.err,
                       invoker |-> <<[tool |-> tool.name, parameters |-> call.function.arguments,
                                      content |-> r.content, err |-> r.err]>>,
                       invocations |-> r.invocations]

(***************************************************************************)
(* Requests, responses and the language model.                             *)
(***************************************************************************)
\* the content of a message that is plain text
Text(s) == [kind |-> "text", v |-> s]

Message(role, content) == [role |-> role, content |-> Text(content), toolCalls |-> <<>>]

\* newRequest applying chat.Model, chat.Temperature, chat.Toolkit(tk) and the
\* chat.Message options: tk is Nil when no chat.Toolkit option is given
NewRequest(model, messages, tk) ==
    [Model |-> model,
     Messages |-> messages,
     Tools |-> IF tk = Nil THEN <<>> ELSE [j \in 1..Len(Tools(tk)) |-> Tools(tk)[j].name],
     Options |-> [temperature |-> "0"],
     toolkit |-> tk]

\* (*chat.Request).Toolkit(): the toolkit the chat.Toolkit option bound, or nil
Toolkit(q) == q.toolkit

\* a variant that advertises the tools in the first exchange only
BodyToolsOnce(q) ==
    [model |-> q.Model, messages |-> q.Messages,
     tools |-> IF \E j \in DOMAIN q.Messages : q.Messages[j].role = "tool" THEN <<>> ELSE q.Tools,
     options |-> q.Options]

\* json.Marshal(req): the hooks and the toolkit are not exported to the wire
Body(q) == [model |-> q.Model, messages |-> q.Messages, tools |-> q.Tools, options |-> q.Options]

\* the tool calls a language model may issue
Calls ==
    { [function |-> Nil],
      [function |-> [name |-> "", arguments |-> JObj(<<>>)]],
      [function |-> [name |-> "ghost", arguments |-> JObj(<<>>)]],
      [function |-> [name |-> "hello", arguments |-> JObj([name |-> JStr("world")])]],
      [function |-> [name |-> "hello", arguments |-> JObj([name |-> JNum("5")])]],
      [function |-> [name |-> "now", arguments |-> JObj(<<>>)]],
      [function |-> [name |-> "now", arguments |-> JObj([timeZone |-> JStr("Mars/Phobos")])]],
      [function |-> [name |-> "ratio", arguments |-> JObj([a |-> JNum("1"), b |-> JNum("0")])]] }

\* the lists of at most n tool calls, for n up to MaxCalls
CallLists == [n \in 0..MaxCalls |-> SeqsUpTo(Calls, n)]

ToolMessages(q) == Cardinality({j \in DOMAIN q.Messages : q.Messages[j].role = "tool"})

Min(a, b) == IF a < b THEN a ELSE b

\* the responses the language model may give to request q: it asks for no more
\* tools once the history holds MaxToolMessages tool messages
Responses(q) ==
    { [model |-> q.Model,
       message |-> [role |-> "assistant",
                    content |-> Text(IF cs = <<>> THEN "It's 10:26 PM in Dublin." ELSE ""),
                    toolCalls |-> cs]]
      : cs \in CallLists[Min(MaxCalls, MaxToolMessages - ToolMessages(q))] }

(***************************************************************************)
(* Client.Do, the exchange.                                                *)
(***************************************************************************)
Reverse(s) == [j \in 1..Len(s) |-> s[Len(s) + 1 - j]]

\* a for loop over hooks that returns the first error: failing is the set of hooks
\* that return one on this request
RECURSIVE RunHooks(_, _)
RunHooks(hooks, failing) ==
    IF hooks = <<>> THEN Nil
    ELSE IF hooks[1] \in failing THEN Errorf("hook " \o hooks[1] \o " failed")
    ELSE RunHooks(Tail(hooks), failing)

Canceled == Errorf("context canceled")

\* what the network and the server do with one request
Outcomes(q) ==
    {[kind |-> "refused"], [kind |-> "status", status |-> "500 Internal Server Error"],
     [kind |-> "truncated"]}
    \cup {[kind |-> "ok", rsp |-> r] : r \in Responses(q)}

\* Do up to the call of http.DefaultClient.Do: the error of the first failing
\* request hook (First In First Out)
DoRequest(ct, failing) == RunHooks(ct.requestHooks, failing)

\* a variant whose request does not carry the context: it is deaf to cancellation
DoResponseDeaf(ct, ctxDone, outcome, failing) ==
    LET hookErr == RunHooks(Reverse(ct.responseHooks), failing)
    IN  IF outcome.kind = "refused"
        THEN [err |-> Errorf("dial tcp: connection refused"), rsp |-> Nil]
        ELSE IF hookErr # Nil THEN [err |-> hookErr, rsp |-> Nil]
        ELSE IF outcome.kind = "status" THEN [err |-> Errorf(outcome.status), rsp |-> Nil]
        ELSE IF outcome.kind = "truncated" THEN [err |-> Errorf("unexpected EOF"), rsp |-> Nil]
        ELSE [err |-> Nil, rsp |-> outcome.rsp]

\* Do from http.DefaultClient.Do on: [err, rsp]
DoResponse(ct, ctxDone, outcome, failing) ==
    LET hookErr == RunHooks(Reverse(ct.responseHooks), failing)
    IN  IF ctxDone THEN [err |-> Canceled, rsp |-> Nil]
        ELSE IF outcome.kind = "refused"
        THEN [err |-> Errorf("dial tcp: connection refused"), rsp |-> Nil]
        ELSE IF hookErr # Nil THEN [err |-> hookErr, rsp |-> Nil]
        ELSE IF outcome.kind = "status" THEN [err |-> Errorf(outcome.status), rsp |-> Nil]
        ELSE IF outcome.kind = "truncated" THEN [err |-> Errorf("unexpected EOF"), rsp |-> Nil]
        ELSE [err |-> Nil, rsp |-> outcome.rsp]

\* the clients a context may hold: the default one, and one with hooks added
Clients ==
    { [requestHooks |-> <<>>, responseHooks |-> <<>>],
      [requestHooks |-> <<"auth">>, responseHooks |-> <<"audit">>] }

\* the histories a caller assembles with chat.System and chat.User
Histories ==
    { <<Message("user", "What time is it in Dublin?")>>,
      <<Message("system", "Use the provided tools."), Message("user", "Say hello to the world.")>> }

\* the toolkits a caller binds with chat.Toolkit, or none
Toolkits == {Nil, ToolkitNew(<<helloTool, nowTool, ratioTool>>)}

\* the contexts Chat may run in: the caller's, cancelled or not
Contexts == {[kind |-> "context", done |-> b] : b \in BOOLEAN}

\* toolkit.Call on every toolkit, context and tool call of the model
ToolkitCalls ==
    [tk \in Toolkits \ {Nil}, ctx \in Contexts, call \in Calls |-> ToolkitCall(tk, ctx, call)]

(***************************************************************************)
(* ollama.Chat, the conversation loop.                                     *)
(***************************************************************************)
\* the context handed to Do and to toolkit.Call
Ctx == [kind |-> "context", done |-> cancelled]

\* a variant that returns the error wrapped instead of as Do returned it
TransportFailureWrapped(err) == [rsp |-> Nil, err |-> Wrapf(err, " in chat")]

\* return nil, err
TransportFailure(err) == [rsp |-> Nil, err |-> err]

\* a variant with an iteration cap: it also stops at the second exchange
ConvergedCapped(tk, r) == tk = Nil \/ Len(r.message.toolCalls) = 0 \/ Len(sent) >= 2

\* if toolkit == nil || len(rsp.Message.ToolCalls) == 0
Converged(tk, r) == tk = Nil \/ Len(r.message.toolCalls) = 0

\* a variant that strips the tool calls from the response it returns
AnswerStripped(r) == [rsp |-> [r EXCEPT !.message.toolCalls = <<>>], err |-> Nil]

\* return &rsp, nil
Answer(r) == [rsp |-> r, err |-> Nil]

\* a variant that returns the response and drops the error
DispatchFailureSwallowed(r, err) == [rsp |-> r, err |-> Nil]

\* return &rsp, err
DispatchFailure(r, err) == [rsp |-> r, err |-> err]

\* a variant that puts the new message in front of the history
AppendMessageInFront(q, msg) == [q EXCEPT !.Messages = <<msg>> \o @]

\* req.Messages = append(req.Messages, msg)
AppendMessage(q, msg) == [q EXCEPT !.Messages = Append(@, msg)]

\* a variant whose range loop stops one call short
MoreCallsShort(r, j) == j + 1 < Len(r.message.toolCalls)

\* whether the range loop over the tool calls has more to do after call j
MoreCalls(r, j) == j < Len(r.message.toolCalls)

\* Do builds the request and runs the request hooks, then hands it to the HTTP
\* client, which refuses a context that is already done
ChatSend ==
    /\ pc = "Sending"
    /\ \E failing \in SUBSET {client.requestHooks[j] : j \in DOMAIN client.requestHooks} :
         LET hookErr == DoRequest(client, failing)
             err == IF hookErr # Nil THEN hookErr ELSE Canceled
         IN  IF hookErr # Nil \/ cancelled
             THEN /\ doErr' = err
                  /\ ret' = TransportFailure(err)
                  /\ pc' = "Terminal"
                  /\ UNCHANGED sent
             ELSE /\ sent' = Append(sent, Body(req))
                  /\ pc' = "AwaitingResponse"
                  /\ UNCHANGED <<doErr, ret>>
    /\ UNCHANGED <<client, toolkit, req, rsp, i, cancelled, received, dispatched, invoked>>
    /\ UNCHANGED <<toolVars, registryVars, callVars, codecVars, doVars, clientVars>>

\* the exchange comes back: Do returns, and Chat returns or turns to the tool calls
ChatReceive ==
    /\ pc = "AwaitingResponse"
    /\ \E outcome \in Outcomes(req),
          failing \in SUBSET {client.responseHooks[j] : j \in DOMAIN client.responseHooks} :
         LET r == DoResponse(client, cancelled, outcome, failing)
         IN  /\ doErr' = r.err
             /\ IF r.err # Nil
                THEN /\ ret' = TransportFailure(r.err)
                     /\ pc' = "Terminal"
                     /\ UNCHANGED <<rsp, i, received>>
                ELSE /\ rsp' = r.rsp
                     /\ received' = Append(received, r.rsp)
                     /\ IF Converged(toolkit, r.rsp)
                        THEN /\ ret' = Answer(r.rsp)
                             /\ pc' = "Terminal"
                             /\ UNCHANGED i
                        ELSE /\ pc' = "Dispatching"
                             /\ i' = 1
                             /\ UNCHANGED ret
    /\ UNCHANGED <<client, toolkit, req, cancelled, sent, dispatched, invoked>>
    /\ UNCHANGED <<toolVars, registryVars, callVars, codecVars, doVars, clientVars>>

\* one pass of the range loop: toolkit.Call of call i, then return or append
ChatDispatch ==
    /\ pc = "Dispatching"
    /\ \E call \in {rsp.message.toolCalls[i]} : \E r \in {ToolkitCalls[toolkit, Ctx, call]} :
           /\ dispatched' = Append(dispatched,
                                   [call |-> call, msg |-> r.ret, err |-> r.err,
                                    round |-> Len(received), done |-> cancelled,
                                    invoker |-> r.invoker, invocations |-> r.invocations])
           /\ invoked' = invoked \o r.invocations
           /\ IF r.err # Nil
              THEN /\ ret' = DispatchFailure(rsp, r.err)
                   /\ pc' = "Terminal"
                   /\ UNCHANGED <<req, i>>
              ELSE /\ req' = AppendMessage(req, r.ret)
                   /\ UNCHANGED ret
                   /\ IF MoreCalls(rsp, i)
                      THEN i' = i + 1 /\ pc' = "Dispatching"
                      ELSE i' = 0 /\ pc' = "Sending"
    /\ UNCHANGED <<client, toolkit, rsp, cancelled, sent, received, doErr>>
    /\ UNCHANGED <<toolVars, registryVars, callVars, codecVars, doVars, clientVars>>

\* the caller cancels the context while Chat runs
Cancel ==
    /\ pc # "Terminal"
    /\ ~cancelled
    /\ cancelled' = TRUE
    /\ UNCHANGED <<pc, client, toolkit, req, rsp, i, ret, sent, received, doErr, dispatched, invoked>>
    /\ UNCHANGED <<toolVars, registryVars, callVars, codecVars, doVars, clientVars>>

\* no tool is being built
ToolIdle ==
    /\ newPc = "Idle"
    /\ newOptions = <<>>
    /\ newAt = 0
    /\ newTool = Nil
    /\ newRet = Nil
    /\ newLog = <<>>

\* no toolkit has been built
RegistryIdle ==
    /\ regPc = "Idle"
    /\ heap = <<>>
    /\ registry = Nil
    /\ slices = <<>>
    /\ regLog = <<>>

\* no tool is being called
CallIdle ==
    /\ callPc = "Idle"
    /\ callTool = Nil
    /\ callParameters = Nil
    /\ callQ = Nil
    /\ callOut = <<>>
    /\ callRet = Nil
    /\ callLog = <<>>

\* nothing is being encoded or decoded
CodecIdle ==
    /\ codecPc = "Idle"
    /\ codecValue = Nil
    /\ codecJs = Nil
    /\ codecOut = Nil

\* no exchange is running on its own
DoIdle ==
    /\ doPc = "Idle"
    /\ doClient = Nil
    /\ doFailing = {}
    /\ doAt = 0
    /\ doOutcome = Nil
    /\ doLog = <<>>
    /\ doRet = Nil

\* no client has been derived
ClientIdle ==
    /\ hookArrays = <<>>
    /\ clients = <<>>
    /\ built = <<>>
    /\ withRet = Nil

Init ==
    /\ ToolIdle
    /\ RegistryIdle
    /\ CallIdle
    /\ CodecIdle
    /\ DoIdle
    /\ ClientIdle
    /\ pc = "Sending"
    /\ client \in Clients
    /\ \E tk \in Toolkits, h \in Histories : req = NewRequest("llama3.1:latest", h, tk)
    /\ toolkit = Toolkit(req)
    /\ rsp = Nil
    /\ i = 0
    /\ ret = [rsp |-> Nil, err |-> Nil]
    /\ cancelled = FALSE
    /\ sent = <<>>
    /\ received = <<>>
    /\ doErr = Nil
    /\ dispatched = <<>>
    /\ invoked = <<>>

Next == ChatSend \/ ChatReceive \/ ChatDispatch \/ Cancel

Spec == Init /\ [][Next]_vars

\* Chat runs on: the HTTP client and the bound callables return
LiveSpec == Spec /\ WF_vars(ChatSend) /\ WF_vars(ChatReceive) /\ WF_vars(ChatDispatch)

(***************************************************************************)
(* Properties of the conversation loop.                                    *)
(***************************************************************************)
\* the dispatches of round k (the tool calls of the k-th response), in order
RoundCalls(k) == SelectSeq(dispatched, LAMBDA d : d.round = k)

\* the messages the dispatches of a sequence returned
MessagesOf(ds) == [j \in 1..Len(ds) |-> ds[j].msg]

\* dispatch d was of a call that names no tool of the bound toolkit
Unregistered(d) ==
    d.call.function # Nil /\ d.call.function.name \notin DOMAIN toolkit.table

\* dispatch d was of a call that names a tool of the bound toolkit
Registered(d) ==
    d.call.function # Nil /\ d.call.function.name \in DOMAIN toolkit.table

\* C1: once an exchange succeeds with a response that carries no tool calls, or
\* with no toolkit bound, Chat has returned exactly that response with no error,
\* has dispatched none of its calls and has made no further exchange.
C1_AnswerEndsLoop ==
    (received # <<>> /\ (toolkit = Nil \/ Last(received).message.toolCalls = <<>>))
    => /\ pc = "Terminal"
       /\ ret.rsp = Last(received)
       /\ ret.err = Nil
       /\ RoundCalls(Len(received)) = <<>>
       /\ Len(sent) = Len(received)
       /\ (toolkit = Nil => dispatched = <<>> /\ Len(sent) = 1)

\* a first response without tool calls ended the loop of a request with a toolkit
C1_Witness ==
    /\ toolkit # Nil
    /\ Len(received) = 1
    /\ received[1].message.toolCalls = <<>>
    /\ pc = "Terminal"
    /\ Len(sent) = 1

\* C2: the tool calls of a response are dispatched one after the other in the
\* order of the response, their tool messages are appended in that order, and
\* an exchange after the first carries the history of the one before followed
\* by the tool messages of all calls of the response before.
C2_DispatchInOrder ==
    /\ \A k \in 1..Len(received) :
         LET ds == RoundCalls(k)
             calls == received[k].message.toolCalls
         IN  /\ Len(ds) <= Len(calls)
             /\ \A j \in 1..Len(ds) : ds[j].call = calls[j]
             /\ \A j \in 1..(Len(ds) - 1) : ds[j].err = Nil
    /\ pc = "Dispatching" =>
         LET ds == RoundCalls(Len(received))
         IN  /\ Len(ds) = i - 1
             /\ req.Messages = Last(sent).messages \o MessagesOf(ds)
    /\ \A m \in 2..Len(sent) :
         LET ds == RoundCalls(m - 1)
         IN  /\ Len(ds) = Len(received[m - 1].message.toolCalls)
             /\ \A j \in 1..Len(ds) : ds[j].err = Nil /\ ds[j].msg.role = "tool"
             /\ sent[m].messages = sent[m - 1].messages \o MessagesOf(ds)

\* a second exchange was made after a response with two tool calls
C2_Witness ==
    /\ Len(sent) >= 2
    /\ Len(received[1].message.toolCalls) = 2
    /\ RoundCalls(1)[1].msg # RoundCalls(1)[2].msg

\* C3: when Do fails, at any iteration, Chat has returned that error as it is
\* and no response; nothing is sent, received or dispatched afterwards.
C3_TransportFailureEndsLoop ==
    [][ /\ doErr' # Nil => (pc' = "Terminal" /\ ret'.rsp = Nil /\ ret'.err = doErr')
        /\ doErr # Nil => UNCHANGED <<pc, ret, sent, received, dispatched, req>> ]_vars

\* an exchange failed after an earlier one had succeeded and its calls were dispatched
C3_Witness ==
    /\ doErr # Nil
    /\ doErr # Canceled
    /\ Len(received) >= 1
    /\ dispatched # <<>>
    /\ pc = "Terminal"
    /\ ret.err = doErr

\* C4: a tool call that names no tool of the toolkit ends the loop: Chat has
\* returned the tool-not-found error, the call is the last one dispatched and
\* no exchange follows the one that brought it.
C4_UnknownToolEndsLoop ==
    \A j \in DOMAIN dispatched :
        Unregistered(dispatched[j]) =>
            /\ j = Len(dispatched)
            /\ pc = "Terminal"
            /\ ret.err = Errorf("tool \"" \o dispatched[j].call.function.name \o "\" not found")
            /\ Len(sent) = dispatched[j].round

\* the unknown tool was the first of two calls of a response
C4_Witness ==
    /\ dispatched # <<>>
    /\ Unregistered(Last(dispatched))
    /\ Last(dispatched).call.function.name = "ghost"
    /\ Len(rsp.message.toolCalls) = 2
    /\ rsp.message.toolCalls[1] = Last(dispatched).call
    /\ Len(RoundCalls(Len(received))) = 1
    /\ pc = "Terminal"

\* the JSON envelope {"error": <text of err>}
Envelope(err) == [kind |-> "object", fields |-> [error |-> [kind |-> "string", v |-> err.text]]]

\* content is a JSON object with the one key "error"
IsEnvelope(content) == content.kind = "object" /\ DOMAIN content.fields = {"error"}

\* C5 as stated: a dispatch of a registered tool that fails (arguments not
\* decoded, result not encoded, or the tool returned an error) is reported to
\* the caller, and its tool message with the error envelope is part of the
\* history.
C5_FailureInHistory ==
    \A j \in DOMAIN dispatched :
        (Registered(dispatched[j]) /\ dispatched[j].err # Nil) =>
            /\ ret.err = dispatched[j].err
            /\ \E k \in DOMAIN req.Messages : req.Messages[k] = dispatched[j].msg

\* C5 as the code has it: a dispatch of a registered tool that fails ends the
\* loop and is reported to the caller with the response that asked for it;
\* toolkit.Call produced the tool message with the error envelope, but Chat
\* does not append it: the history holds the tool messages of the successful
\* dispatches only, and no exchange follows.
C5_FailureReportedNotAppended ==
    \A j \in DOMAIN dispatched :
        (Registered(dispatched[j]) /\ dispatched[j].err # Nil) =>
            /\ j = Len(dispatched)
            /\ pc = "Terminal"
            /\ ret.err = dispatched[j].err
            /\ ret.rsp = received[dispatched[j].round]
            /\ dispatched[j].msg.role = "tool"
            /\ dispatched[j].msg.content = Envelope(dispatched[j].err)
            /\ \A k \in DOMAIN req.Messages : req.Messages[k] # dispatched[j].msg
            /\ ToolMessages(req) = j - 1
            /\ Len(sent) = dispatched[j].round

\* a registered tool failed after an earlier call of the same response succeeded
C5_Witness ==
    /\ Len(dispatched) >= 2
    /\ Registered(Last(dispatched))
    /\ Last(dispatched).err # Nil
    /\ Last(dispatched).invocations # <<>>
    /\ dispatched[Len(dispatched) - 1].round = Last(dispatched).round
    /\ pc = "Terminal"

C7_EndsOnlyOnAnswerOrFailure ==
    /\ [](pc = "Terminal" /\ toolkit # Nil /\ ret.err = Nil
            => ret.rsp = Last(received) /\ Last(received).message.toolCalls = <<>>)
    /\ [](pc = "Terminal" /\ ret.err # Nil
            => \/ ret.err = doErr
               \/ dispatched # <<>> /\ ret.err = Last(dispatched).err)
    /\ [](pc # "Terminal" => ENABLED (ChatSend \/ ChatReceive \/ ChatDispatch))
    /\ <>(pc = "Terminal")

\* Chat went on for as many rounds of tool calls as the language model asked for
C7_Witness ==
    /\ Len(sent) = MaxToolMessages + 1
    /\ \A k \in 1..MaxToolMessages : received[k].message.toolCalls # <<>>
    /\ pc = "Terminal"
    /\ ret.err = Nil

\* C8 as stated: a cancellation aborts the exchange in flight, Chat unwinding
\* with the cancellation error, and once the context is cancelled no tool
\* call is dispatched any more, the rest of a batch under dispatch included.
C8_CancelStopsDispatch ==
    [][/\ cancelled /\ pc = "AwaitingResponse"
            => pc' = "Terminal" /\ ret'.err = Canceled
       /\ cancelled => dispatched' = dispatched]_vars

\* C8: a cancellation aborts the exchange in flight, Chat returning no
\* response and the cancellation error, and after it no exchange is sent or
\* received; an exchange attempted after it fails before it is sent.  Only the
\* exchange observes the cancellation: with a batch of tool calls under
\* dispatch the next call is dispatched all the same, under the cancelled
\* context.
C8_CancelAbortsExchangeOnly ==
    [][/\ cancelled /\ pc = "AwaitingResponse"
            => pc' = "Terminal" /\ ret' = [rsp |-> Nil, err |-> Canceled]
       /\ cancelled => sent' = sent /\ received' = received
       /\ cancelled /\ pc = "Sending"
            => pc' = "Terminal" /\ ret'.rsp = Nil /\ ret'.err # Nil
       /\ cancelled /\ pc = "Dispatching"
            => /\ Len(dispatched') = Len(dispatched) + 1
               /\ Last(dispatched').done
               /\ Last(dispatched').call = rsp.message.toolCalls[i]]_vars

\* a tool call was dispatched under the cancelled context, its message was
\* appended, and Chat then unwound with the cancellation error
C8_Witness ==
    /\ cancelled
    /\ pc = "Terminal"
    /\ ret = [rsp |-> Nil, err |-> Canceled]
    /\ \E j \in DOMAIN dispatched :
         /\ dispatched[j].done
         /\ dispatched[j].err = Nil
         /\ dispatched[j].invocations # <<>>
         /\ dispatched[j].msg \in {req.Messages[m] : m \in DOMAIN req.Messages}

\* C9: the dispatch of a tool call whose function name is no key of the
\* registry fails with the error `tool "<name>" not found`, and makes no call
\* of tool.Call and no invocation of a bound callable.
C9_UnregisteredNotInvoked ==
    \A j \in DOMAIN dispatched :
        Unregistered(dispatched[j])
            => /\ dispatched[j].err
                    = Errorf("tool \"" \o dispatched[j].call.function.name \o "\" not found")
               /\ dispatched[j].invoker = <<>>
               /\ dispatched[j].invocations = <<>>
               /\ Len(invoked)
                    = Len(SelectSeq(dispatched, LAMBDA d : Registered(d)
                                                           /\ d.invocations # <<>>))

\* an unregistered name was dispatched after a registered tool had been invoked
C9_Witness ==
    /\ Len(dispatched) >= 2
    /\ Registered(dispatched[1])
    /\ dispatched[1].invocations # <<>>
    /\ Unregistered(dispatched[2])
    /\ dispatched[2].call.function.name = "ghost"

MaxTools == 2
\* the most operations (Call, Tools) the conversations make of one toolkit
MaxRegOps == 3

\* the conversations that share the toolkit
Conversations == {1, 2}

\* tool.New(tool.Func(now), tool.Name("hello"), ...): a second tool named hello
greetTool == [nowTool EXCEPT !.name = "hello"]

\* the tools a caller builds its toolkit from
ToolPool == {helloTool, nowTool, greetTool}

\* the tool a caller writes into a slice it holds
Intruder == ratioTool

\* the tool calls the conversations dispatch: a registered name, an unknown one
RegCalls == {c \in Calls : c.function # Nil /\ c.function.name \in {"hello", "ghost"}
                                            /\ c.function.arguments # JObj([name |-> JNum("5")])}

\* append([]Tool(nil), src...): a new backing array with the elements of src
\* (a nil slice and an empty one are both the empty sequence), as [heap, ref]
CloneSlice(h, ref) == [heap |-> Append(h, h[ref]), ref |-> Len(h) + 1]

\* toolkit.New(tools...), tools being the slice at ref: [heap, tk]
ToolkitNewAt(h, ref) ==
    LET c == CloneSlice(h, ref)
    IN  [heap |-> c.heap, tk |-> [list |-> c.ref, table |-> NewTable(h[ref])]]

\* a variant that hands out the list of the toolkit itself
ToolsShared(h, tkr) == [heap |-> h, ref |-> tkr.list]

\* tk.Tools(): [heap, ref], ref being the slice returned
ToolsAt(h, tkr) == CloneSlice(h, tkr.list)

\* the toolkit as toolkit.Call reads it
Deref(h, tkr) == [list |-> h[tkr.list], table |-> tkr.table]

\* a caller builds the toolkit from the slice it holds
RegNew ==
    /\ regPc = "Idle"
    /\ slices # <<>>
    /\ \E r \in {ToolkitNewAt(heap, slices[1])} :
         /\ heap' = r.heap
         /\ registry' = r.tk
         /\ regLog' = Append(regLog, [op |-> "New", tools |-> heap[slices[1]]])
    /\ regPc' = "Built"
    /\ UNCHANGED <<slices, chatVars, toolVars, callVars, codecVars, doVars, clientVars>>

\* a conversation asks for the tools, and keeps the slice
RegTools ==
    /\ regPc = "Built"
    /\ Len(regLog) <= MaxRegOps
    /\ \E c \in Conversations : \E r \in {ToolsAt(heap, registry)} :
         /\ heap' = r.heap
         /\ slices' = Append(slices, r.ref)
         /\ regLog' = Append(regLog, [op |-> "Tools", conv |-> c, tools |-> r.heap[r.ref]])
    /\ UNCHANGED <<regPc, registry, chatVars, toolVars, callVars, codecVars, doVars, clientVars>>

\* a conversation dispatches a tool call
RegCall ==
    /\ regPc = "Built"
    /\ Len(regLog) <= MaxRegOps
    /\ \E c \in Conversations, call \in RegCalls :
         \E r \in {ToolkitCall(Deref(heap, registry), [kind |-> "context", done |-> FALSE], call)} :
            regLog' = Append(regLog, [op |-> "Call", conv |-> c, call |-> call,
                                      ret |-> r.ret, err |-> r.err])
    /\ UNCHANGED <<regPc, heap, registry, slices, chatVars, toolVars, callVars, codecVars, doVars, clientVars>>

\* a caller overwrites the first element of a slice it holds
RegWrite ==
    /\ \E j \in DOMAIN slices :
         /\ heap[slices[j]] # <<>>
         /\ heap[slices[j]][1] # Intruder
         /\ heap' = [heap EXCEPT ![slices[j]][1] = Intruder]
    /\ UNCHANGED <<regPc, registry, slices, regLog, chatVars, toolVars, callVars, codecVars, doVars, clientVars>>

\* Chat is not running
ChatIdle ==
    /\ pc = "Terminal"
    /\ client = [requestHooks |-> <<>>, responseHooks |-> <<>>]
    /\ toolkit = Nil
    /\ req = Nil
    /\ rsp = Nil
    /\ i = 0
    /\ ret = [rsp |-> Nil, err |-> Nil]
    /\ cancelled = FALSE
    /\ sent = <<>>
    /\ received = <<>>
    /\ doErr = Nil
    /\ dispatched = <<>>
    /\ invoked = <<>>

\* a caller holds a slice of at most MaxTools tools
RegistryInit ==
    /\ ChatIdle
    /\ ToolIdle
    /\ CallIdle
    /\ CodecIdle
    /\ DoIdle
    /\ ClientIdle
    /\ regPc = "Idle"
    /\ \E tools \in SeqsUpTo(ToolPool, MaxTools) : heap = <<tools>>
    /\ registry = Nil
    /\ slices = <<1>>
    /\ regLog = <<>>

RegistryNext == RegNew \/ RegTools \/ RegCall \/ RegWrite

RegistrySpec == RegistryInit /\ [][RegistryNext]_vars

\* the tools toolkit.New was given, as they were when it was called
Registered0 == regLog[1].tools

\* C11: the registry is fixed at construction.  Once toolkit.New has returned,
\* the list of the toolkit is the list New was given, in that order, and the
\* table is the one New built from it; every Tools returned exactly that list,
\* whatever Call and Tools ran before and whatever the callers wrote to the
\* slice given to New or to a slice Tools returned; and each Tools returned a
\* slice that shares its array with no other.
C11_RegistryFixed ==
    regPc = "Built" =>
        /\ heap[registry.list] = Registered0
        /\ registry.table = NewTable(Registered0)
        /\ \A n \in DOMAIN regLog : regLog[n].op = "Tools" => regLog[n].tools = Registered0
        /\ \A j \in DOMAIN slices : slices[j] # registry.list
        /\ \A j, m \in DOMAIN slices : j # m => slices[j] # slices[m]

\* after a Call and a write to a slice Tools had returned, and a write to the
\* slice New was given, Tools was called again
C11_Witness ==
    /\ regPc = "Built"
    /\ Len(regLog) >= 4
    /\ regLog[2].op = "Tools"
    /\ regLog[3].op = "Call"
    /\ regLog[3].conv # regLog[2].conv
    /\ regLog[4].op = "Tools"
    /\ Registered0 # <<>>
    /\ heap[slices[2]] # Registered0
    /\ heap[slices[1]] # Registered0

(***************************************************************************)
(* Go types and callables as reflect sees them.                            *)
(***************************************************************************)
\* the most input parameters of a callable
MaxIn == 3
\* the most results of a callable
MaxOut == 3
\* the most fields of a structured parameter drawn from FieldPool
MaxFields == 2

\* a reflect.Type: its Kind, its name, its fields when it is a struct, whether
\* it implements context.Context, whether it implements error, and whether it
\* is a tool.Optional
GoType(kind, name) ==
    [kind |-> kind, name |-> name, fields |-> <<>>,
     isContext |-> FALSE, isError |-> FALSE, isOptional |-> FALSE]

ContextType == [GoType("interface", "context.Context") EXCEPT !.isContext = TRUE]
ErrorType == [GoType("interface", "error") EXCEPT !.isError = TRUE]
IntType == GoType("int", "int")
Uint64Type == GoType("uint64", "tool.id")
Float64Type == GoType("float64", "float64")
BoolType == GoType("bool", "bool")
StringType == GoType("string", "string")
SliceType == GoType("slice", "[]string")
ArrayType == GoType("array", "[2]int")
MapType == GoType("map", "map[string]string")

\* the json key of a struct tag: whether Lookup(`json`) finds it, and its
\* value split at the commas
JSONTag(parts) == [ok |-> TRUE, parts |-> parts]
NoJSON == [ok |-> FALSE, parts |-> <<>>]

\* a reflect.StructTag; use and type are "" when absent
Tag(json, use, type) == [json |-> json, use |-> use, type |-> type]
NoTag == Tag(NoJSON, "", "")

\* a reflect.StructField
Field(name, exported, anonymous, tag, type) ==
    [Name |-> name, Exported |-> exported, Anonymous |-> anonymous, Tag |-> tag, Type |-> type]

StructOf(name, fields) == [GoType("struct", name) EXCEPT !.fields = fields]

\* time.Time: a struct whose fields are not exported
TimeType ==
    StructOf("time.Time", <<Field("wall", FALSE, FALSE, NoTag, Uint64Type),
                            Field("ext", FALSE, FALSE, NoTag, IntType)>>)

\* tool.Optional[T]: struct { present bool; value T }
OptionalOf(T) ==
    [StructOf("tool.Optional[" \o T.name \o "]",
              <<Field("present", FALSE, FALSE, NoTag, BoolType),
                Field("value", FALSE, FALSE, NoTag, T)>>) EXCEPT !.isOptional = TRUE]

\* a value handed to Func: a function with its runtime name, the types of its
\* parameters and of its results; or a value that is no function
Callable(name, in, out) == [kind |-> "func", name |-> name, in |-> in, out |-> out]
NotCallable == [kind |-> "int", name |-> "", in |-> <<>>, out |-> <<>>]

\* the runtime name of a function: import path, package, and the rest
FuncName(dir, pkg, rest) == [dir |-> dir, pkg |-> pkg, rest |-> rest]

\* struct { A string; B string }
ABType == StructOf("struct { A string; B string }",
                   <<Field("A", TRUE, FALSE, NoTag, StringType),
                     Field("B", TRUE, FALSE, NoTag, StringType)>>)

\* func simple(q struct{ A string; B string }) string
simple == Callable(FuncName("github.com/swdunlop/ollama-client/chat", "tool", "simple"),
                   <<ABType>>, <<StringType>>)

\* func full(ctx context.Context, q struct{ A string; B string }) (string, error)
full == Callable(FuncName("github.com/swdunlop/ollama-client/chat", "tool", "full"),
                 <<ContextType, ABType>>, <<StringType, ErrorType>>)

\* the parameter of now: struct { TimeZone tool.Optional[string] `use:"..." type:"string"` }
NowInput ==
    StructOf("struct { TimeZone tool.Optional[string] }",
             <<Field("TimeZone", TRUE, FALSE,
                     Tag(NoJSON, "time zone, such as America/New_York or Africa/Dakar", "string"),
                     OptionalOf(StringType))>>)

\* func now(q struct{ TimeZone tool.Optional[string] }) (t time.Time, err error)
nowFn == Callable(FuncName("", "main", "now"), <<NowInput>>, <<TimeType, ErrorType>>)

\* the parameter of hello: struct { Name string `json:"name" use:"..."` }
HelloInput ==
    StructOf("struct { Name string }",
             <<Field("Name", TRUE, FALSE,
                     Tag(JSONTag(<<"name">>), "who should we say hello to?", ""), StringType)>>)

\* func hello(q struct{ Name string }) (r struct{ Hello string }, err error)
helloFn ==
    Callable(FuncName("github.com/swdunlop/ollama-client/chat", "tool", "hello"),
             <<HelloInput>>,
             <<StructOf("struct { Hello string }",
                        <<Field("Hello", TRUE, FALSE, Tag(JSONTag(<<"hello">>), "", ""), StringType)>>),
               ErrorType>>)

\* struct { ID tool.id `json:"id"`; Inner }, Inner being struct { Deep bool; note string }
InnerType ==
    StructOf("tool.Inner", <<Field("Deep", TRUE, FALSE, Tag(NoJSON, "deep", ""), BoolType),
                             Field("note", FALSE, FALSE, Tag(NoJSON, "note", ""), StringType)>>)
BaseType ==
    StructOf("tool.Base", <<Field("ID", TRUE, FALSE, Tag(JSONTag(<<"id">>), "identifier", ""), Uint64Type),
                            Field("Inner", TRUE, TRUE, NoTag, InnerType)>>)

\* the fields the structured parameters are made of: every kind the switch of
\* bindInputParameters names and some it does not, with and without tags,
\* exported or not, wrapped in Optional or not, embedded or not
FieldPool ==
    {Field("Count", TRUE, FALSE, Tag(NoJSON, "count", ""), IntType),
     Field("Ratio", TRUE, FALSE, Tag(NoJSON, "ratio", ""), Float64Type),
     Field("Tags", TRUE, FALSE, Tag(NoJSON, "tags", ""), SliceType),
     Field("Grid", TRUE, FALSE, Tag(NoJSON, "grid", ""), ArrayType),
     Field("Meta", TRUE, FALSE, Tag(NoJSON, "meta", ""), MapType),
     Field("On", TRUE, FALSE, Tag(NoJSON, "on", ""), BoolType),
     Field("Label", TRUE, FALSE, Tag(JSONTag(<<"label", "omitempty">>), "label", ""), StringType),
     Field("When", TRUE, FALSE, Tag(NoJSON, "when", ""), TimeType),
     Field("Zone", TRUE, FALSE, Tag(NoJSON, "zone", "string"), OptionalOf(StringType)),
     Field("Limit", TRUE, FALSE, Tag(NoJSON, "limit", ""), OptionalOf(IntType)),
     Field("secret", FALSE, FALSE, Tag(NoJSON, "secret", ""), StringType),
     Field("Blank", TRUE, FALSE, Tag(JSONTag(<<"", "omitempty">>), "blank", ""), StringType),
     Field("Base", TRUE, TRUE, NoTag, BaseType),
     Field("inner", FALSE, TRUE, NoTag, InnerType)}

\* func probe(q struct{ ... }) string, for every struct of at most MaxFields fields
StructCallables ==
    {Callable(FuncName("", "main", "probe"), <<StructOf("struct { ... }", fs)>>, <<StringType>>)
       : fs \in SeqsUpTo(FieldPool, MaxFields)}

\* a function main.shape for every list of at most MaxIn parameters and at
\* most MaxOut results
ShapeCallables ==
    {Callable(FuncName("", "main", "shape"), in, out)
       : in \in SeqsUpTo({ContextType, ABType, IntType}, MaxIn),
         out \in SeqsUpTo({StringType, ErrorType}, MaxOut)}

(***************************************************************************)
(* The tool under construction, and tool.bind.                             *)
(***************************************************************************)
\* the zero protocol.ToolFunctionProperty
ZeroProperty == [Type |-> "", Description |-> "", Enum |-> <<>>]

\* the *tool as tool.New allocates it, before any option
NewTool ==
    [spec |-> [Type |-> "function",
               Function |-> [Name |-> "", Description |-> "",
                             Parameters |-> [Type |-> "object", Required |-> <<>>,
                                             Properties |-> <<>>]]],
     fn |-> Nil, inputType |-> Nil, contentType |-> Nil,
     expectsContext |-> FALSE, returnsErrors |-> FALSE,
     fixups |-> <<>>, err |-> Nil]

PropertiesOf(t) == t.spec.Function.Parameters.Properties
RequiredOf(t) == t.spec.Function.Parameters.Required

\* a variant that starts every update from the zero property
PropertyZero(t, parameter) == ZeroProperty

\* Properties[parameter]: the property, or the zero property when the map
\* has none of that name
PropertyOf(t, parameter) ==
    IF parameter \in DOMAIN PropertiesOf(t) THEN PropertiesOf(t)[parameter] ELSE ZeroProperty

\* t.updateProperty(parameter, fn): the property replaced by fn of it; p is
\* fn(PropertyOf(t, parameter)), computed by the caller
updateProperty(t, parameter, p) ==
    LET props == PropertiesOf(t)
    IN  [t EXCEPT !.spec.Function.Parameters.Properties =
            [n \in DOMAIN props \cup {parameter} |-> IF n = parameter THEN p ELSE props[n]]]

\* t.bindFunctionName: the runtime name after its last slash and its first dot
bindFunctionName(t, fv) == [t EXCEPT !.spec.Function.Name = fv.name.rest]

\* a variant that does not look at the json tag
FieldNameUntagged(fs) == fs.Name

\* the property name of a field: the json tag up to its first comma, else the
\* name of the field
FieldName(fs) == IF fs.Tag.json.ok THEN fs.Tag.json.parts[1] ELSE fs.Name

\* the switch on fs.Type.Kind() of bindInputParameters
KindType(kind) ==
    CASE kind = "array" -> "array"
      [] kind = "struct" -> "object"
      [] kind = "map" -> "object"
      [] kind \in {"int", "uint", "int8", "uint8", "int16", "uint16", "int32", "uint32",
                   "int64", "uint64"} -> "number"
      [] kind = "bool" -> "bool"
      [] kind = "string" -> "string"
      [] OTHER -> ""

\* the type bindInputParameters gives a field: the type tag, else by kind
JSONType(fs) == IF fs.Tag.type # "" THEN fs.Tag.type ELSE KindType(fs.Type.kind)

\* the update bindInputParameters makes of the property of a field
BindProperty(fs, fp) ==
    LET described == IF fs.Tag.use # "" THEN [fp EXCEPT !.Description = fs.Tag.use] ELSE fp
    IN  IF described.Type = "" THEN [described EXCEPT !.Type = JSONType(fs)] ELSE described

\* the loop of bindInputParameters over the fields of it, from field n on: a
\* field that is not exported is skipped, an embedded one is bound field by
\* field, one whose name is empty is skipped
RECURSIVE BindFieldsFrom(_, _, _)
BindFieldsFrom(t, it, n) ==
    IF n > Len(it.fields) THEN t
    ELSE LET fs == it.fields[n]
             bound == IF ~fs.Exported THEN t
                      ELSE IF fs.Anonymous THEN BindFieldsFrom(t, fs.Type, 1)
                      ELSE IF FieldName(fs) = "" THEN t
                      ELSE updateProperty(t, FieldName(fs), BindProperty(fs, PropertyOf(t, FieldName(fs))))
         IN  BindFieldsFrom(bound, it, n + 1)

\* t.bindInputParameters(it): the tool; the error returned is always nil
bindInputParameters(t, it) == BindFieldsFrom(t, it, 1)

\* a variant of the switch on NumOut that takes any second result
OutputErrorLax(name, out) ==
    IF Len(out) \in {1, 2} THEN Nil
    ELSE Errorf("incorrect output parameters for tool " \o Quote(name))

\* the switch on ft.NumOut() of bind: the error it returns, or Nil
OutputError(name, out) ==
    CASE Len(out) = 1 -> Nil
      [] Len(out) = 2 -> IF ~out[2].isError
                           THEN Errorf("incorrect output parameters for tool " \o Quote(name))
                           ELSE Nil
      [] OTHER -> Errorf("incorrect output parameters for tool " \o Quote(name))

\* t.bind(fn): [t, err], t being the tool as bind leaves it
bind(t, fn) ==
    IF fn.kind # "func"
    THEN [t |-> t, err |-> Errorf("cannot bind " \o fn.kind \o " as a tool")]
    ELSE
    LET t1 == [t EXCEPT !.fn = fn]
        t2 == IF t1.spec.Function.Name = "" THEN bindFunctionName(t1, fn) ELSE t1
        \* spec is a copy of t.spec that shares its Function
        name == t2.spec.Function.Name
        t3 == CASE Len(fn.in) = 1 -> [t2 EXCEPT !.inputType = fn.in[1]]
                [] Len(fn.in) = 2 ->
                     [t2 EXCEPT !.expectsContext = IF fn.in[1].isContext THEN TRUE ELSE @,
                                !.inputType = fn.in[2]]
                [] OTHER -> t2
        outErr == OutputError(name, fn.out)
        t4 == IF Len(fn.out) = 2 /\ outErr = Nil THEN [t3 EXCEPT !.returnsErrors = TRUE] ELSE t3
        t5 == [t4 EXCEPT !.contentType = fn.out[1]]
    IN  IF Len(fn.in) \notin {1, 2}
        THEN [t |-> t2, err |-> Errorf("incorrect input parameters for tool " \o Quote(name))]
        ELSE IF outErr # Nil THEN [t |-> t3, err |-> outErr]
        ELSE IF t5.inputType.kind # "struct"
        THEN [t |-> t5,
              err |-> Errorf("incorrect input parameter for tool " \o Quote(name)
                             \o "; got string, but a structure is required")]
        ELSE [t |-> bindInputParameters(t5, t5.inputType), err |-> Nil]

(***************************************************************************)
(* The options of tool.New.                                                *)
(***************************************************************************)
Func(fn) == [op |-> "Func", fn |-> fn]
Name(name) == [op |-> "Name", name |-> name]
Description(description) == [op |-> "Description", description |-> description]
Enum(parameter, values) == [op |-> "Enum", parameter |-> parameter, values |-> values]
Parameter(parameter, parameterType, description) ==
    [op |-> "Parameter", parameter |-> parameter, parameterType |-> parameterType,
     description |-> description]
Required(parameters) == [op |-> "Required", parameters |-> parameters]
FixParameterNames(fix) == [op |-> "FixParameterNames", fix |-> fix]
CamelNames == FixParameterNames("ToLowerCamel")

\* strcase.ToLowerCamel, on the names of the model
ToLowerCamel(name) ==
    CASE name = "A" -> "a"
      [] name = "B" -> "b"
      [] name = "TimeZone" -> "timeZone"
      [] name = "Count" -> "count"
      [] name = "Ratio" -> "ratio"
      [] name = "Tags" -> "tags"
      [] name = "Grid" -> "grid"
      [] name = "Meta" -> "meta"
      [] name = "On" -> "on"
      [] name = "When" -> "when"
      [] name = "Zone" -> "zone"
      [] name = "Limit" -> "limit"
      [] name = "Deep" -> "deep"
      [] OTHER -> name

\* the renaming functions handed to FixParameterNames: strcase.ToLowerCamel,
\* one that deletes status and B, one that gives every parameter the same name
Fix(fix, name) ==
    CASE fix = "ToLowerCamel" -> ToLowerCamel(name)
      [] fix = "Drop" -> IF name \in {"status", "B"} THEN "" ELSE name
      [] fix = "Same" -> "arg"

\* a variant that applies a fixup where it is listed
ApplyFixupInPlace(t, o) ==
    LET props == PropertiesOf(t)
        names == {Fix(o.fix, n) : n \in DOMAIN props} \ {""}
    IN  [t EXCEPT !.spec.Function.Parameters.Properties =
                     [x \in names |-> props[CHOOSE n \in DOMAIN props : Fix(o.fix, n) = x]],
                  !.spec.Function.Parameters.Required =
                     SelectSeq([j \in DOMAIN RequiredOf(t) |-> Fix(o.fix, RequiredOf(t)[j])],
                               LAMBDA n : n # "")]

\* fixupOption: the fixup is kept for later
fixupOption(t, o) == [t EXCEPT !.fixups = Append(@, o)]

\* option(t), for each option of the package
ApplyOption(t, o) ==
    CASE o.op = "Func" -> LET r == bind(t, o.fn) IN [r.t EXCEPT !.err = r.err]
      [] o.op = "Name" -> [t EXCEPT !.spec.Function.Name = o.name]
      [] o.op = "Description" -> [t EXCEPT !.spec.Function.Description = o.description]
      [] o.op = "Enum" ->
           updateProperty(t, o.parameter,
                          [PropertyOf(t, o.parameter) EXCEPT !.Enum = @ \o o.values])
      [] o.op = "Parameter" ->
           updateProperty(t, o.parameter,
                          [PropertyOf(t, o.parameter) EXCEPT !.Description = o.description,
                                                             !.Type = o.parameterType])
      [] o.op = "Required" ->
           [t EXCEPT !.spec.Function.Parameters.Required = @ \o o.parameters]
      [] o.op = "FixParameterNames" -> fixupOption(t, o)

\* the fixup of FixParameterNames(fix): the tools it may leave.  The
\* properties are renamed in the order the map is iterated: of the properties
\* that get the same name, any one may be the one that stays
FixupOutcomes(t, o) ==
    LET props == PropertiesOf(t)
        names == {Fix(o.fix, n) : n \in DOMAIN props} \ {""}
        from(x) == {props[n] : n \in {m \in DOMAIN props : Fix(o.fix, m) = x}}
        nexts == {next \in [names -> {props[n] : n \in DOMAIN props}] :
                    \A x \in names : next[x] \in from(x)}
        required == SelectSeq([j \in DOMAIN RequiredOf(t) |-> Fix(o.fix, RequiredOf(t)[j])],
                              LAMBDA n : n # "")
    IN  {[t EXCEPT !.spec.Function.Parameters.Properties = next,
                   !.spec.Function.Parameters.Required = required] : next \in nexts}

\* t.validateParameter(name, parameter)
validateParameter(name, parameter) ==
    IF parameter.Type = "" THEN Errorf("missing parameter type")
    ELSE IF parameter.Description = "" THEN Errorf("missing parameter description")
    ELSE Nil

\* t.validateParameters(): the errors it may return, Nil when no property is
\* at fault; the properties are visited in the order the map is iterated
validateParameters(t) ==
    LET props == PropertiesOf(t)
        errOf(n) == IF n = "" THEN Errorf("all parameters must have names")
                    ELSE IF validateParameter(n, props[n]) = Nil THEN Nil
                    ELSE Wrapf(validateParameter(n, props[n]),
                               " while validating parameter " \o Quote(n))
        errs == {errOf(n) : n \in DOMAIN props} \ {Nil}
    IN  IF errs = {} THEN {Nil} ELSE errs

\* t.validateRequired(): the error for the first required name that is no property
validateRequired(t) ==
    LET missing == SelectSeq(RequiredOf(t), LAMBDA n : n \notin DOMAIN PropertiesOf(t))
    IN  IF missing = <<>> THEN Nil
        ELSE Errorf("missing required parameter " \o Quote(missing[1]))

\* a variant that does not look at the required names
validateLax(t) ==
    IF t.spec.Function.Description = ""
    THEN {Errorf("function tools should have a description")}
    ELSE validateParameters(t)

\* t.validate(): the errors it may return
validate(t) ==
    IF t.spec.Function.Description = ""
    THEN {Errorf("function tools should have a description")}
    ELSE IF validateParameters(t) # {Nil} THEN validateParameters(t)
    ELSE {validateRequired(t)}

(***************************************************************************)
(* tool.New(options...): the loop over the options, the loop over the      *)
(* fixups, the validation.                                                 *)
(***************************************************************************)
\* the most options of a list drawn from OptionPool
MaxOptions == 3

StatusValues == <<"completed", "delivering", "preparing", "pending">>

\* the options the lists are made of
OptionPool ==
    {Func(nowFn), Func(helloFn), Func(simple),
     Description("says hello to someone"), Name("greet"),
     Parameter("status", "string", "the status of the order"),
     Enum("status", StatusValues), Enum("name", <<"world">>),
     Required(<<"status">>), Required(<<"name", "B">>),
     CamelNames, FixParameterNames("Drop"), FixParameterNames("Same")}

\* the lists of options tool.New is called with: the lists of at most
\* MaxOptions options of the pool, Func of every callable, and Func of every
\* shape of callable after Func(full)
OptionLists ==
    SeqsUpTo(OptionPool, MaxOptions)
    \cup {<<Func(fn)>> : fn \in ShapeCallables \cup StructCallables \cup {NotCallable}}
    \cup {<<Func(full), Func(fn)>> : fn \in ShapeCallables}

\* where New goes once the loop over the options is over
AfterOptions(t) == IF t.fixups = <<>> THEN "Validate" ELSE "Fixups"

\* one pass of the loop over the options: option(t), then the check of t.err
NewOption ==
    /\ newPc = "Options"
    /\ \E after \in {ApplyOption(newTool, newOptions[newAt])} :
         /\ newTool' = after
         /\ newLog' = Append(newLog, [step |-> "option", option |-> newOptions[newAt],
                                      before |-> newTool, after |-> after])
         /\ IF after.err # Nil
            THEN /\ newRet' = [tool |-> Nil, err |-> after.err]
                 /\ newPc' = "Returned"
                 /\ UNCHANGED newAt
            ELSE /\ UNCHANGED newRet
                 /\ IF newAt < Len(newOptions)
                    THEN newAt' = newAt + 1 /\ newPc' = "Options"
                    ELSE newAt' = 1 /\ newPc' = AfterOptions(after)
    /\ UNCHANGED <<newOptions, chatVars, registryVars, callVars, codecVars, doVars, clientVars>>

\* one pass of the loop over the fixups: fixup(t), then the check of t.err;
\* after the last one t.fixups is set to nil
NewFixup ==
    /\ newPc = "Fixups"
    /\ \E after \in FixupOutcomes(newTool, newTool.fixups[newAt]) :
         /\ newLog' = Append(newLog, [step |-> "fixup", option |-> newTool.fixups[newAt],
                                      before |-> newTool, after |-> after])
         /\ IF after.err # Nil
            THEN /\ newTool' = after
                 /\ newRet' = [tool |-> Nil, err |-> after.err]
                 /\ newPc' = "Returned"
                 /\ UNCHANGED newAt
            ELSE /\ UNCHANGED newRet
                 /\ IF newAt < Len(newTool.fixups)
                    THEN newTool' = after /\ newAt' = newAt + 1 /\ newPc' = "Fixups"
                    ELSE newTool' = [after EXCEPT !.fixups = <<>>]
                         /\ newAt' = 1 /\ newPc' = "Validate"
    /\ UNCHANGED <<newOptions, chatVars, registryVars, callVars, codecVars, doVars, clientVars>>

\* return t, t.validate()
NewValidate ==
    /\ newPc = "Validate"
    /\ \E err \in validate(newTool) :
         /\ newRet' = [tool |-> newTool, err |-> err]
         /\ newLog' = Append(newLog, [step |-> "validate", option |-> Nil,
                                      before |-> newTool, after |-> newTool])
    /\ newPc' = "Returned"
    /\ UNCHANGED <<newOptions, newAt, newTool, chatVars, registryVars, callVars, codecVars, doVars, clientVars>>

\* tool.New has allocated the tool and is about to apply its first option
ToolInit ==
    /\ ChatIdle
    /\ RegistryIdle
    /\ CallIdle
    /\ CodecIdle
    /\ DoIdle
    /\ ClientIdle
    /\ newOptions \in OptionLists
    /\ newTool = NewTool
    /\ newAt = 1
    /\ newPc = IF newOptions = <<>> THEN "Validate" ELSE "Options"
    /\ newRet = Nil
    /\ newLog = <<>>

ToolNext == NewOption \/ NewFixup \/ NewValidate

ToolSpec == ToolInit /\ [][ToolNext]_vars

(***************************************************************************)
(* Properties of tool.bind and tool.New.                                   *)
(***************************************************************************)
\* the applications of Func to a function so far: t.bind(fn) with the tool
\* before it and the tool after it, whose err is what bind returned
Binds ==
    {newLog[n] : n \in {m \in DOMAIN newLog : /\ newLog[m].step = "option"
                                              /\ newLog[m].option.op = "Func"
                                              /\ newLog[m].option.fn.kind = "func"}}

\* the errors with which bind turns down the input parameters of a function
InputErrors(name) ==
    {Errorf("incorrect input parameters for tool " \o Quote(name)),
     Errorf("incorrect input parameter for tool " \o Quote(name)
            \o "; got string, but a structure is required")}

\* the input shapes the arity rule names: no parameter, one struct, a context
\* and a struct
InputShapeOK(fn) ==
    \/ Len(fn.in) = 0
    \/ Len(fn.in) = 1 /\ fn.in[1].kind = "struct"
    \/ Len(fn.in) = 2 /\ fn.in[1].isContext /\ fn.in[2].kind = "struct"

\* C12 as stated: bind does not turn down the input parameters of a function
\* that takes no parameter, one struct, or a context and a struct; it fails
\* for every other input shape.
C12_InputArity ==
    \A b \in Binds :
        /\ InputShapeOK(b.option.fn)
             => b.after.err \notin InputErrors(b.after.spec.Function.Name)
        /\ ~InputShapeOK(b.option.fn) => b.after.err # Nil

\* the results the return rule names: one value, or a value and an error
OutputShapeOK(fn) ==
    \/ Len(fn.out) = 1
    \/ Len(fn.out) = 2 /\ fn.out[2].isError

\* C13: bind fails whenever the function returns other than 1 or 2 values, or
\* 2 values whose second does not implement error; with one value, or a value
\* and an error, it does not fail with the error about the output parameters,
\* and fails with that error exactly when the inputs pass and the results do not.
C13_OutputArity ==
    \A b \in Binds :
        LET fn == b.option.fn
            outErr == Errorf("incorrect output parameters for tool "
                             \o Quote(b.after.spec.Function.Name))
        IN  /\ ~OutputShapeOK(fn) => b.after.err # Nil
            /\ OutputShapeOK(fn) => b.after.err # outErr
            /\ ~OutputShapeOK(fn) /\ Len(fn.in) \in {1, 2} => b.after.err = outErr

\* Func was given a function of a context and a struct whose second result is
\* no error, and tool.New returned the error about the output parameters
C13_Witness ==
    /\ newPc = "Returned"
    /\ newRet.tool = Nil
    /\ newRet.err = Errorf("incorrect output parameters for tool \"shape\"")
    /\ \E b \in Binds :
         /\ InputShapeOK(b.option.fn)
         /\ Len(b.option.fn.in) = 2
         /\ Len(b.option.fn.out) = 2
         /\ ~b.option.fn.out[2].isError

\* C14 as stated: after a successful bind, expectsContext is true exactly when
\* the function takes a context as the first of two parameters, returnsErrors
\* exactly when it has a second result, and contentType is the type of its
\* first result.
C14_MetadataMatchesShape ==
    \A b \in Binds :
        b.after.err = Nil =>
            /\ b.after.expectsContext
                 <=> (Len(b.option.fn.in) = 2 /\ b.option.fn.in[1].isContext)
            /\ b.after.returnsErrors <=> Len(b.option.fn.out) = 2
            /\ b.after.contentType = b.option.fn.out[1]
            /\ b.after.fn = b.option.fn

\* the elements of a sequence
Range(q) == {q[n] : n \in DOMAIN q}

\* the named, exposed fields of a structured parameter: the exported fields
\* with a name, those of the embedded structs included
RECURSIVE ExposedFields(_)
ExposedFields(it) ==
    UNION {IF ~f.Exported THEN {}
           ELSE IF f.Anonymous THEN ExposedFields(f.Type)
           ELSE IF f.Tag.json.ok /\ Head(f.Tag.json.parts) = "" THEN {}
           ELSE {f} : f \in Range(it.fields)}

\* the name a field is exposed under: its name tag if it has one, else its identifier
ExposedName(f) == IF f.Tag.json.ok THEN Head(f.Tag.json.parts) ELSE f.Name

\* C15 as stated: after Func has bound a structured parameter, the name of
\* every exposed field wrapped in Optional is absent from `required`, and the
\* name of every exposed field that is not wrapped is in `required`.
C15_RequiredUnlessOptional ==
    \A b \in Binds :
        b.after.err = Nil =>
            \A f \in ExposedFields(b.after.inputType) :
                /\ f.Type.isOptional => ExposedName(f) \notin Range(RequiredOf(b.after))
                /\ ~f.Type.isOptional => ExposedName(f) \in Range(RequiredOf(b.after))

DocumentedType(kind) ==
    CASE kind \in {"array", "slice"} -> "array"
      [] kind \in {"struct", "map"} -> "object"
      [] kind \in {"int", "uint", "int8", "uint8", "int16", "uint16", "int32", "uint32",
                   "int64", "uint64", "float32", "float64"} -> "number"
      [] kind = "bool" -> "bool"
      [] kind = "string" -> "string"
      [] OTHER -> ""

\* C17 as stated: the type of the property of a bound field is its type
\* annotation when it has one, and else follows from the kind of the field,
\* for every kind: number for the integers and the floats, bool, string,
\* object for structs and maps, array for arrays and slices.
C17_TypeByKind ==
    \A b \in Binds :
        b.after.err = Nil =>
            \A f \in ExposedFields(b.after.inputType) :
                ExposedName(f) \notin DOMAIN PropertiesOf(b.before) =>
                    PropertiesOf(b.after)[ExposedName(f)].Type
                        = IF f.Tag.type # "" THEN f.Tag.type ELSE DocumentedType(f.Type.kind)

\* the steps of tool.New so far that applied an option of the given kind
Applied(op) ==
    {newLog[n] : n \in {m \in DOMAIN newLog : /\ newLog[m].step = "option"
                                              /\ newLog[m].option.op = op}}

\* the property of a tool under a name, the zero property when it has none
Prop(t, name) ==
    IF name \in DOMAIN PropertiesOf(t) THEN PropertiesOf(t)[name] ELSE ZeroProperty

\* every property but the named one is as it was, and so is `required`
OthersKept(a, name) ==
    /\ DOMAIN PropertiesOf(a.after) = DOMAIN PropertiesOf(a.before) \cup {name}
    /\ \A n \in DOMAIN PropertiesOf(a.before) \ {name} :
         PropertiesOf(a.after)[n] = PropertiesOf(a.before)[n]
    /\ RequiredOf(a.after) = RequiredOf(a.before)

\* C18: Enum, Parameter and Required add to what earlier options set.  Enum
\* appends its values to the enum of the property and keeps its type and
\* description; Parameter sets the type and the description and keeps the
\* enum; both leave the other properties and `required` alone; Required
\* appends its names to `required` and leaves the properties alone.  A tool
\* built with the one Enum(status, completed, delivering, preparing, pending)
\* and no fixup has a status property whose enum is that list, in that order.
C18_OptionsAdditive ==
    /\ \A a \in Applied("Enum") :
         /\ Prop(a.after, a.option.parameter)
              = [Prop(a.before, a.option.parameter)
                   EXCEPT !.Enum = Prop(a.before, a.option.parameter).Enum \o a.option.values]
         /\ OthersKept(a, a.option.parameter)
    /\ \A a \in Applied("Parameter") :
         /\ Prop(a.after, a.option.parameter)
              = [Type |-> a.option.parameterType, Description |-> a.option.description,
                 Enum |-> Prop(a.before, a.option.parameter).Enum]
         /\ OthersKept(a, a.option.parameter)
    /\ \A a \in Applied("Required") :
         /\ RequiredOf(a.after) = RequiredOf(a.before) \o a.option.parameters
         /\ PropertiesOf(a.after) = PropertiesOf(a.before)
    /\ (/\ newPc = "Returned"
        /\ newRet.tool # Nil
        /\ Cardinality({n \in DOMAIN newOptions : newOptions[n] = Enum("status", StatusValues)}) = 1
        /\ \A n \in DOMAIN newOptions : newOptions[n].op # "FixParameterNames")
         => Prop(newRet.tool, "status").Enum = StatusValues

\* Enum was applied to a property that Parameter had declared, and Parameter
\* to one that carried an enum
C18_Witness ==
    /\ newPc = "Returned"
    /\ newOptions = <<Parameter("status", "string", "the status of the order"),
                      Enum("status", StatusValues),
                      Parameter("status", "string", "the status of the order")>>
    /\ Prop(newRet.tool, "status")
         = [Type |-> "string", Description |-> "the status of the order", Enum |-> StatusValues]

\* the steps of tool.New so far that ran a fixup
Fixed == {newLog[n] : n \in {m \in DOMAIN newLog : newLog[m].step = "fixup"}}

\* the names left of a list of names by a renaming function, in order
Renamed(fix, names) ==
    SelectSeq([j \in DOMAIN names |-> Fix(fix, names[j])], LAMBDA n : n # "")

\* C19: the fixups run after every option has been applied, wherever they are
\* listed: listing one only adds it to the fixups and leaves the descriptor
\* alone, and the first fixup runs on the tool as the last option left it.
\* A fixup renames the properties and `required` alike: the keys are the new
\* names of the old keys, a property whose new name is shared with no other
\* is the old one, `required` holds the new names of its old names in their
\* order, and a name mapped to the empty string is in neither.
C19_FixupsRunLast ==
    /\ \A a \in Applied("FixParameterNames") :
         a.after = [a.before EXCEPT !.fixups = Append(a.before.fixups, a.option)]
    /\ \A m, n \in DOMAIN newLog :
         (newLog[m].step = "fixup" /\ newLog[n].step = "option") => n < m
    /\ Fixed # {} =>
         /\ Len(SelectSeq(newLog, LAMBDA e : e.step = "option")) = Len(newOptions)
         /\ \A n \in DOMAIN newOptions : newLog[n].option = newOptions[n]
         /\ newLog[Len(newOptions) + 1].before = newLog[Len(newOptions)].after
    /\ \A x \in Fixed :
         LET fix == x.option.fix
             old == PropertiesOf(x.before)
             new == PropertiesOf(x.after)
         IN  /\ DOMAIN new = {Fix(fix, n) : n \in DOMAIN old} \ {""}
             /\ \A n \in DOMAIN old :
                  (\A m \in DOMAIN old : Fix(fix, m) = Fix(fix, n) => m = n)
                  /\ Fix(fix, n) # ""
                    => new[Fix(fix, n)] = old[n]
             /\ \A k \in DOMAIN new : \E n \in DOMAIN old : Fix(fix, n) = k /\ new[k] = old[n]
             /\ RequiredOf(x.after) = Renamed(fix, RequiredOf(x.before))
             /\ "" \notin DOMAIN new \cup Range(RequiredOf(x.after))

\* a fixup listed first ran on the properties and the required names that the
\* options listed after it had added: it deleted status from both and kept name
C19_Witness ==
    /\ newPc = "Returned"
    /\ newOptions = <<FixParameterNames("Drop"), Func(helloFn), Required(<<"status">>)>>
    /\ \E x \in Fixed :
         /\ DOMAIN PropertiesOf(x.before) = {"name"}
         /\ RequiredOf(x.before) = <<"status">>
         /\ DOMAIN PropertiesOf(x.after) = {"name"}
         /\ RequiredOf(x.after) = <<>>

\* the descriptor invariant: a description, and for every property a name, a
\* type and a description, and every required name a property
DescriptorOK(t) ==
    /\ t.spec.Function.Description # ""
    /\ \A n \in DOMAIN PropertiesOf(t) :
         /\ n # ""
         /\ PropertiesOf(t)[n].Type # ""
         /\ PropertiesOf(t)[n].Description # ""
    /\ \A n \in Range(RequiredOf(t)) : n \in DOMAIN PropertiesOf(t)

\* C20: when tool.New returns a nil error the descriptor of the tool it
\* returns satisfies the descriptor invariant, whatever the options and the
\* fixups; and the validation ran once, as the last step, after every option
\* and every fixup, on the tool that is returned.
C20_ValidatedDescriptor ==
    /\ Cardinality({n \in DOMAIN newLog : newLog[n].step = "validate"}) <= 1
    /\ \A n \in DOMAIN newLog : newLog[n].step = "validate" => n = Len(newLog)
    /\ (newPc = "Returned" /\ newRet.err = Nil) =>
         /\ newRet.tool # Nil
         /\ DescriptorOK(newRet.tool)
         /\ Last(newLog).step = "validate"
         /\ Last(newLog).before = newRet.tool
         /\ newRet.tool.fixups = <<>>
         /\ Len(SelectSeq(newLog, LAMBDA e : e.step = "option")) = Len(newOptions)
         /\ Len(SelectSeq(newLog, LAMBDA e : e.step = "fixup"))
              = Len(SelectSeq(newOptions, LAMBDA o : o.op = "FixParameterNames"))

\* tool.New returned a tool with a property and a required name, after a fixup
C20_Witness ==
    /\ newPc = "Returned"
    /\ newRet.err = Nil
    /\ Fixed # {}
    /\ Applied("Func") # {}
    /\ Applied("Description") # {}
    /\ DOMAIN PropertiesOf(newRet.tool) # {}

ratioFn ==
    Callable(FuncName("", "main", "ratio"),
             <<StructOf("struct { A float64; B float64 }",
                        <<Field("A", TRUE, FALSE, Tag(JSONTag(<<"a">>), "the numerator", "number"),
                                Float64Type),
                          Field("B", TRUE, FALSE, Tag(JSONTag(<<"b">>), "the denominator", "number"),
                                Float64Type)>>)>>,
             <<Float64Type>>)

\* the callables handed to Func: those of the tests and of the examples, and
\* a function main.shape for each list of parameters and of results
CallCallables ==
    {helloFn, nowFn, simple, full, ratioFn}
    \cup {Callable(FuncName("", "main", "shape"), in, out)
            : in \in {<<>>, <<ABType>>, <<ContextType, ABType>>, <<ABType, ABType>>,
                      <<ABType, ContextType>>},
              out \in {<<StringType>>, <<StringType, ErrorType>>}}

\* the tools Func leaves: one Func on a new tool, and a second Func on a tool
\* that was already bound
CallTools ==
    LET once == {bind(NewTool, fn) : fn \in CallCallables}
        bound == {r.t : r \in {b \in once : b.err = Nil}}
        twice == {bind(t, fn) : t \in {bind(NewTool, full).t, bind(NewTool, simple).t},
                                fn \in {simple, full}}
    IN  bound \cup {r.t : r \in {b \in twice : b.err = Nil}}

\* the raw parameters the tools are called with
CallInputs ==
    {JInvalid, JNull, JStr("world"),
     JObj([name |-> JStr("world")]), JObj([name |-> JNum("1")]),
     JObj([A |-> JStr("x"), B |-> JStr("y")]), JObj([A |-> JStr("x"), B |-> JNum("1")]),
     JObj([TimeZone |-> JStr("UTC")]), JObj([TimeZone |-> JStr("Mars")]),
     JObj([TimeZone |-> JNull]),
     JObj([a |-> JNum("1"), b |-> JNum("1")]), JObj([a |-> JNum("1"), b |-> JNum("0")])}

\* the type json.Unmarshal decodes a field into
DecodeType(T) == IF T.isOptional THEN "Optional[string]" ELSE T.name

\* the fields json.Unmarshal fills of a struct type, by their keys
DecodeFields(it) ==
    LET fs == {f \in Range(it.fields) : f.Exported /\ ~f.Anonymous}
        key(f) == IF f.Tag.json.ok /\ Head(f.Tag.json.parts) # "" THEN Head(f.Tag.json.parts)
                  ELSE f.Name
    IN  [k \in {key(f) : f \in fs} |-> DecodeType((CHOOSE f \in fs : key(f) = k).Type)]

\* an argument of reflect.Value.Call: a value and its type
Arg(type, value) == [type |-> type, value |-> value]

\* the arguments tool.Call passes: the context first when t.expectsContext
CallArgs(t, ctx, q) ==
    IF t.expectsContext THEN <<Arg(ContextType, ctx), Arg(t.inputType, q)>>
    ELSE <<Arg(t.inputType, q)>>

\* reflect.Value.Call panics unless it is given as many arguments as the
\* function has parameters, each assignable to its parameter
ArgsFit(fn, args) ==
    /\ Len(args) = Len(fn.in)
    /\ \A k \in DOMAIN args : args[k].type = fn.in[k]

\* what the callable may return when it is called with these arguments
Returns(fn, args) ==
    LET q == Last(args).value
    IN  CASE fn.name.rest = "hello" -> {hello(q)}
          [] fn.name.rest = "now" -> {now(GoStruct([timeZone |-> q.fields.TimeZone]))}
          [] fn.name.rest = "ratio" -> {ratio(q)}
          [] fn.name.rest = "simple" -> {<<GoString(q.fields.A.v \o q.fields.B.v)>>}
          [] fn.name.rest = "full" -> {<<GoString(q.fields.A.v \o q.fields.B.v), Nil>>}
          [] OTHER -> IF Len(fn.out) = 2
                      THEN {<<GoString("ok"), Nil>>, <<GoString(""), Errorf("shape failed")>>}
                      ELSE {<<GoString("ok")>>}

\* a variant that calls the callable whatever the decoding said
DecodeFailureIgnored(t, err) == Nil

\* the error tool.Call returns when the parameters cannot be decoded
DecodeFailure(t, err) ==
    Wrapf(err, " while parsing parameters for " \o Quote(t.spec.Function.Name))

\* q := reflect.New(t.inputType).Elem(); json.Unmarshal(parameters, q.Addr().Interface())
CallDecode ==
    /\ callPc = "Decode"
    /\ \E r \in {Unmarshal(callParameters, DecodeFields(callTool.inputType))} :
         \E err \in {IF r.err = Nil THEN Nil ELSE DecodeFailure(callTool, r.err)} :
           IF err # Nil
           THEN /\ callRet' = [content |-> Nil, err |-> err]
                /\ callPc' = "Returned"
                /\ UNCHANGED callQ
           ELSE /\ callQ' = r.value
                /\ callPc' = "Invoke"
                /\ UNCHANGED callRet
    /\ UNCHANGED <<callTool, callParameters, callOut, callLog, chatVars, toolVars, registryVars, codecVars, doVars, clientVars>>

\* ret = t.fn.Call(...), with or without the context
CallInvoke ==
    /\ callPc = "Invoke"
    /\ \E args \in {CallArgs(callTool, [kind |-> "context", done |-> FALSE], callQ)} :
         IF ArgsFit(callTool.fn, args)
         THEN \E out \in Returns(callTool.fn, args) :
                /\ callOut' = out
                /\ callLog' = Append(callLog, [fn |-> callTool.fn, args |-> args, ran |-> TRUE])
                /\ callPc' = "Return"
         ELSE /\ callLog' = Append(callLog, [fn |-> callTool.fn, args |-> args, ran |-> FALSE])
              /\ callPc' = "Panicked"
              /\ UNCHANGED callOut
    /\ UNCHANGED <<callTool, callParameters, callQ, callRet, chatVars, toolVars, registryVars, codecVars, doVars, clientVars>>

\* a variant that encodes ret[0] whatever the callable returned as its error
CallResultContentOnly(t, out) ==
    [content |-> Marshal(out[1]).js, err |-> Nil]

\* what tool.Call returns once the callable has returned out: its error when
\* t.returnsErrors and the error is not nil, else json.Marshal of ret[0]
CallResult(t, out) ==
    LET js == Marshal(out[1])
    IN  IF t.returnsErrors /\ out[2] # Nil
        THEN [content |-> Nil, err |-> out[2]]
        ELSE IF js.err # Nil
        THEN [content |-> Nil,
              err |-> Wrapf(js.err, " while formatting content for "
                                       \o Quote(t.spec.Function.Name))]
        ELSE [content |-> js.js, err |-> Nil]

\* the rest of tool.Call after t.fn.Call; ret[1] panics when the callable
\* returned one value
CallReturn ==
    /\ callPc = "Return"
    /\ IF callTool.returnsErrors /\ Len(callOut) < 2
       THEN callPc' = "Panicked" /\ UNCHANGED callRet
       ELSE /\ callPc' = "Returned"
            /\ callRet' = CallResult(callTool, callOut)
    /\ UNCHANGED <<callTool, callParameters, callQ, callOut, callLog,
                   chatVars, toolVars, registryVars, codecVars, doVars, clientVars>>

\* a tool Func has bound is about to be called
CallInit ==
    /\ ChatIdle
    /\ ToolIdle
    /\ RegistryIdle
    /\ CodecIdle
    /\ DoIdle
    /\ ClientIdle
    /\ callPc = "Decode"
    /\ callTool \in CallTools
    /\ callParameters \in CallInputs
    /\ callQ = Nil
    /\ callOut = <<>>
    /\ callRet = Nil
    /\ callLog = <<>>

CallNext == CallDecode \/ CallInvoke \/ CallReturn

CallSpec == CallInit /\ [][CallNext]_vars

\* C22: when the raw parameters cannot be decoded into the structured
\* parameter of the callable, tool.Call returns no content and an error that
\* wraps the cause of the decoder and names the tool, and it never calls the
\* callable.
C22_DecodeFailureNoInvocation ==
    \A r \in {Unmarshal(callParameters, DecodeFields(callTool.inputType))} :
        (callPc # "Idle" /\ callPc # "Decode" /\ r.err # Nil) =>
            /\ callPc = "Returned"
            /\ callLog = <<>>
            /\ callRet.content = Nil
            /\ callRet.err # Nil
            /\ callRet.err.cause = r.err
            /\ callRet.err.text
                 = r.err.text \o " while parsing parameters for "
                     \o Quote(callTool.spec.Function.Name)

\* hello was called with a number for its name and the call returned
C22_Witness ==
    /\ callPc = "Returned"
    /\ callTool.fn = helloFn
    /\ callParameters = JObj([name |-> JNum("1")])
    /\ callRet.err # Nil
    /\ callLog = <<>>

\* the callable declares a second result that is an error
DeclaresError(fn) == Len(fn.out) = 2 /\ fn.out[2].isError

C27_ArgumentsAsDeclared ==
    \A n \in DOMAIN callLog :
        LET fn == callLog[n].fn
            args == callLog[n].args
        IN  /\ callLog[n].ran
            /\ Len(args) = Len(fn.in)
            /\ \A k \in DOMAIN args : args[k].type = fn.in[k]
            /\ Len(fn.in) = 2 => args[1].type.isContext

(***************************************************************************)
(* The codec of tool.Optional, on a struct with two Optional[string]       *)
(* fields.                                                                 *)
(***************************************************************************)
\* struct { First tool.Optional[string] `json:"first"`; Second tool.Optional[string] `json:"second"` }
CodecType == [first |-> "Optional[string]", second |-> "Optional[string]"]

\* the strings an Optional holds
CodecStrings == {"", "UTC", "Mars", "x"}

\* None[string]() and Some(v)
CodecOptionals == {None(GoString(""))} \cup {Some(GoString(v)) : v \in CodecStrings}

\* the structs that are encoded
CodecValues == {GoStruct([first |-> a, second |-> b]) : a, b \in CodecOptionals}

\* the texts that are decoded: objects in which each of the two keys is
\* missing, null, a string or a number; the key note names no field
CodecInputs ==
    LET vals == {JNull, JStr(""), JStr("UTC"), JNum("1")}
    IN  {JObj([k \in D \cup {"note"} |-> IF k = "note" THEN JStr("n") ELSE f[k]])
           : D \in SUBSET {"first", "second"}, f \in [{"first", "second"} -> vals]}

\* json.Marshal of the struct
CodecMarshal ==
    /\ codecPc = "Start"
    /\ codecJs' = Marshal(codecValue).js
    /\ codecPc' = "Encoded"
    /\ UNCHANGED <<codecValue, codecOut, chatVars, toolVars, registryVars, callVars, doVars, clientVars>>

\* json.Unmarshal of the text into a new struct
CodecUnmarshal ==
    /\ codecPc = "Encoded"
    /\ codecOut' = Unmarshal(codecJs, CodecType)
    /\ codecPc' = "Decoded"
    /\ UNCHANGED <<codecValue, codecJs, chatVars, toolVars, registryVars, callVars, doVars, clientVars>>

\* a struct is about to be encoded, or a text to be decoded
CodecInit ==
    /\ ChatIdle
    /\ ToolIdle
    /\ RegistryIdle
    /\ CallIdle
    /\ DoIdle
    /\ ClientIdle
    /\ codecOut = Nil
    /\ \/ codecPc = "Start" /\ codecValue \in CodecValues /\ codecJs = Nil
       \/ codecPc = "Encoded" /\ codecValue = Nil /\ codecJs \in CodecInputs

CodecNext == CodecMarshal \/ CodecUnmarshal

CodecSpec == CodecInit /\ [][CodecNext]_vars

\* C24 as stated: a struct that is encoded and then decoded comes back as it
\* was, each Optional field absent when it was absent and present with the
\* same value when it was present; and a text that is decoded leaves absent
\* each Optional whose key it does not have and makes present each Optional
\* whose key it has.
C24_OptionalRoundTrip ==
    codecPc = "Decoded" =>
        IF codecValue # Nil
        THEN codecOut.err = Nil /\ codecOut.value = codecValue
        ELSE codecOut.err = Nil =>
               \A k \in DOMAIN CodecType :
                   codecOut.value.fields[k].present <=> k \in DOMAIN codecJs.fields

(***************************************************************************)
(* Client.Do, hook by hook.                                                *)
(***************************************************************************)
\* the most hooks of one kind a client has
MaxHooks == 2

\* the request hooks and the response hooks that are registered
RequestHookPool == {"auth", "trace"}
ResponseHookPool == {"audit", "meter"}

\* the clients whose Do runs: hooks in the order RequestHook and ResponseHook
\* registered them
DoClients ==
    {[requestHooks |-> rq, responseHooks |-> rs]
       : rq \in SeqsUpTo(RequestHookPool, MaxHooks), rs \in SeqsUpTo(ResponseHookPool, MaxHooks)}

\* a variant that applies the response hooks in the order of registration
ResponseOrderFIFO(ct, n) == ct.responseHooks[Len(ct.responseHooks) + 1 - n]

\* ct.responseHooks[i] for the loop index i = n - 1, which counts down
ResponseOrder(ct, n) == ct.responseHooks[n]

\* the error a failing hook returns
HookError(hook) == Errorf("hook " \o hook \o " failed")

\* one pass of the loop over ct.requestHooks: hook(hreq), return on error
DoRequestHook ==
    /\ doPc = "RequestHooks"
    /\ \E hook \in {doClient.requestHooks[doAt]} :
         /\ doLog' = Append(doLog, [kind |-> "request", hook |-> hook])
         /\ IF hook \in doFailing
            THEN /\ doRet' = HookError(hook)
                 /\ doPc' = "Returned"
                 /\ UNCHANGED doAt
            ELSE /\ UNCHANGED doRet
                 /\ IF doAt < Len(doClient.requestHooks)
                    THEN doAt' = doAt + 1 /\ doPc' = "RequestHooks"
                    ELSE doAt' = 0 /\ doPc' = "Send"
    /\ UNCHANGED <<doClient, doFailing, doOutcome,
                   chatVars, toolVars, registryVars, callVars, codecVars, clientVars>>

\* hrsp, err := http.DefaultClient.Do(hreq)
DoSend ==
    /\ doPc = "Send"
    /\ \E outcome \in {"refused", "status", "ok"} :
         /\ doOutcome' = outcome
         /\ doLog' = Append(doLog, [kind |-> "send", hook |-> ""])
         /\ IF outcome = "refused"
            THEN /\ doRet' = Errorf("dial tcp: connection refused")
                 /\ doPc' = "Returned"
                 /\ UNCHANGED doAt
            ELSE /\ UNCHANGED doRet
                 /\ doAt' = Len(doClient.responseHooks)
                 /\ doPc' = IF doClient.responseHooks = <<>> THEN "Decode" ELSE "ResponseHooks"
    /\ UNCHANGED <<doClient, doFailing,
                   chatVars, toolVars, registryVars, callVars, codecVars, clientVars>>

\* one pass of the loop over ct.responseHooks, from the last to the first
DoResponseHook ==
    /\ doPc = "ResponseHooks"
    /\ \E hook \in {ResponseOrder(doClient, doAt)} :
         /\ doLog' = Append(doLog, [kind |-> "response", hook |-> hook])
         /\ IF hook \in doFailing
            THEN /\ doRet' = HookError(hook)
                 /\ doPc' = "Returned"
                 /\ UNCHANGED doAt
            ELSE /\ UNCHANGED doRet
                 /\ doAt' = doAt - 1
                 /\ doPc' = IF doAt > 1 THEN "ResponseHooks" ELSE "Decode"
    /\ UNCHANGED <<doClient, doFailing, doOutcome,
                   chatVars, toolVars, registryVars, callVars, codecVars, clientVars>>

\* the check of the status code, and the decoding of the body
DoDecode ==
    /\ doPc = "Decode"
    /\ doRet' = IF doOutcome = "status" THEN Errorf("500 Internal Server Error") ELSE Nil
    /\ doPc' = "Returned"
    /\ UNCHANGED <<doClient, doFailing, doAt, doOutcome, doLog,
                   chatVars, toolVars, registryVars, callVars, codecVars, clientVars>>

\* Do has built the request and is about to apply the first request hook
DoInit ==
    /\ ChatIdle
    /\ ToolIdle
    /\ RegistryIdle
    /\ CallIdle
    /\ CodecIdle
    /\ ClientIdle
    /\ doClient \in DoClients
    /\ doFailing \in SUBSET (RequestHookPool \cup ResponseHookPool)
    /\ doPc = IF doClient.requestHooks = <<>> THEN "Send" ELSE "RequestHooks"
    /\ doAt = IF doClient.requestHooks = <<>> THEN 0 ELSE 1
    /\ doOutcome = Nil
    /\ doLog = <<>>
    /\ doRet = Nil

DoNext == DoRequestHook \/ DoSend \/ DoResponseHook \/ DoDecode

DoSpec == DoInit /\ [][DoNext]_vars

\* the events of applying the hooks of a list, in the order of the list
HookEvents(kind, hooks) == [n \in DOMAIN hooks |-> [kind |-> kind, hook |-> hooks[n]]]

\* C25: what Do has done so far is: the first request hooks in the order of
\* their registration; then, only when every request hook has run and none
\* failed, the sending of the request; then the last response hooks from the
\* last registered to the first.  A hook that returns an error is the last
\* thing Do does, and Do returns its error.
C25_HookOrder ==
    LET rq == doClient.requestHooks
        rs == Reverse(doClient.responseHooks)
        failed(n) == doLog[n].kind # "send" /\ doLog[n].hook \in doFailing
    IN  doPc # "Idle" =>
          /\ \E a \in 0..Len(rq), sent1 \in BOOLEAN, b \in 0..Len(rs) :
               /\ doLog = HookEvents("request", SubSeq(rq, 1, a))
                            \o (IF sent1 THEN <<[kind |-> "send", hook |-> ""]>> ELSE <<>>)
                            \o HookEvents("response", SubSeq(rs, 1, b))
               /\ sent1 => a = Len(rq)
               /\ b > 0 => sent1
          /\ \A n \in DOMAIN doLog :
               failed(n) => /\ n = Len(doLog)
                            /\ doPc = "Returned"
                            /\ doRet = HookError(doLog[n].hook)
          /\ (doPc = "Returned" /\ doRet = Nil) =>
               Len(doLog) = Len(rq) + 1 + Len(rs)

\* Do ran two request hooks, sent the request and the response hook that was
\* registered first failed after the one registered last had run
C25_Witness ==
    /\ doPc = "Returned"
    /\ doClient.requestHooks = <<"auth", "trace">>
    /\ doClient.responseHooks = <<"audit", "meter">>
    /\ doFailing = {"audit"}
    /\ Len(doLog) = 5
    /\ doLog[4].hook = "meter"
    /\ doRet = HookError("audit")

\* C26 as stated: once toolkit.New has returned, every tool of the list (the
\* list Tools returns and Chat advertises) is the tool a Call by its name is
\* dispatched to, whatever list New was given.
C26_ListAndIndexAgree ==
    regPc = "Built" =>
        \A tk \in {Deref(heap, registry)} :
            /\ \A j \in DOMAIN tk.list : Lookup(tk, tk.list[j].name) = tk.list[j]
            /\ \A n \in DOMAIN regLog :
                   regLog[n].op = "Tools" =>
                       \A j \in DOMAIN regLog[n].tools :
                           Lookup(tk, regLog[n].tools[j].name) = regLog[n].tools[j]

\* the number of tool calls the first m responses carried
RECURSIVE CallsUpTo(_)
CallsUpTo(m) ==
    IF m = 0 THEN 0 ELSE CallsUpTo(m - 1) + Len(received[m].message.toolCalls)

\* C28: the messages of every exchange after the first are the messages the
\* caller gave followed by one tool message for each tool call dispatched so
\* far, in the order of the dispatches: after the rounds 1..m-1 with n1..n(m-1)
\* tool calls, exchange m carries len(initial) + n1 + ... + n(m-1) messages,
\* none of which is the assistant message of a response; and the model, the
\* tools and the options are those of the first exchange.
C28_ResubmittedHistory ==
    \A m \in 2..Len(sent) :
        LET initial == sent[1].messages
            added == SubSeq(sent[m].messages, Len(initial) + 1, Len(sent[m].messages))
        IN  /\ initial \in Histories
            /\ SubSeq(sent[m].messages, 1, Len(initial)) = initial
            /\ Len(sent[m].messages) = Len(initial) + CallsUpTo(m - 1)
            /\ Len(added) = CallsUpTo(m - 1)
            /\ \A j \in DOMAIN added :
                 /\ added[j].role = "tool"
                 /\ added[j] = dispatched[j].msg
                 /\ dispatched[j].err = Nil
                 /\ added[j].toolCalls = <<>>
            /\ \A j \in DOMAIN sent[m].messages, k \in DOMAIN received :
                 sent[m].messages[j] # received[k].message
            /\ sent[m].model = sent[1].model
            /\ sent[m].tools = sent[1].tools
            /\ sent[m].options = sent[1].options

\* a third exchange was sent after two rounds, the first of two tool calls
C28_Witness ==
    /\ Len(sent) >= 3
    /\ Len(received[1].message.toolCalls) = 2
    /\ Len(received[2].message.toolCalls) = 1
    /\ Len(sent[3].messages) = Len(sent[1].messages) + 3
    /\ sent[1].tools # <<>>

\* C29 as stated: tool.New is a function of its options.  Its first state is
\* fixed by the options, so it is one exactly when no step it reaches can end
\* in two ways: every fixup leaves one tool (also when it gives two properties
\* the same name), and the validation returns one error (also when more than
\* one property is at fault).
C29_NewDeterministic ==
    /\ newPc = "Fixups" =>
         Cardinality(FixupOutcomes(newTool, newTool.fixups[newAt])) = 1
    /\ newPc = "Validate" => Cardinality(validate(newTool)) = 1

(***************************************************************************)
(* The clients: New, Client.Apply and With, with the slices of hooks as    *)
(* references to backing arrays that have a capacity, so that an append    *)
(* within the capacity writes to the array the slice shares.               *)
(***************************************************************************)
\* the most clients derived from the default one
MaxDerived == 3

\* the lists of options a client is derived with
HookOptionLists ==
    {<<>>, <<"RequestHook">>, <<"ResponseHook">>,
     <<"RequestHook", "RequestHook", "RequestHook">>,
     <<"RequestHook", "ResponseHook", "ResponseHook", "ResponseHook">>}

\* a nil slice, and the slice of the first len cells of array ref
NilSlice == [ref |-> 0, len |-> 0]

\* cap(s)
Cap(h, s) == IF s.ref = 0 THEN 0 ELSE Len(h[s.ref])

\* the elements of a slice
Contents(h, s) == IF s.ref = 0 THEN <<>> ELSE SubSeq(h[s.ref], 1, s.len)

\* the capacity append gives the new array when one element does not fit
GrowCap(c) == IF c = 0 THEN 1 ELSE 2 * c

\* an array of capacity c that starts with elems
ArrayOf(elems, c) == [n \in 1..c |-> IF n <= Len(elems) THEN elems[n] ELSE Nil]

\* append(s, hook): within the capacity the hook is written to the array of
\* s; beyond it, to a new and larger array.  [heap, slice]
AppendHook(h, s, hook) ==
    IF s.len < Cap(h, s)
    THEN [heap |-> [h EXCEPT ![s.ref][s.len + 1] = hook], slice |-> [s EXCEPT !.len = @ + 1]]
    ELSE [heap |-> Append(h, ArrayOf(Append(Contents(h, s), hook), GrowCap(Cap(h, s)))),
          slice |-> [ref |-> Len(h) + 1, len |-> s.len + 1]]

\* append([]T(nil), s...): nil when s is empty, else a new array.  [heap, slice]
CloneHooks(h, s) ==
    IF s.len = 0 THEN [heap |-> h, slice |-> NilSlice]
    ELSE [heap |-> Append(h, ArrayOf(Contents(h, s),
                                     IF s.len <= 4 THEN s.len ELSE s.len + (s.len % 2))),
          slice |-> [ref |-> Len(h) + 1, len |-> s.len]]

\* the hook option number n of the options client id is derived with
HookOf(id, n) == [client |-> id, n |-> n]

\* for _, option := range options { option(&cp) }, from option n on: [heap, ct]
RECURSIVE ApplyHookOptions(_, _, _, _, _)
ApplyHookOptions(h, ct, options, id, n) ==
    IF n > Len(options) THEN [heap |-> h, ct |-> ct]
    ELSE IF options[n] = "RequestHook"
    THEN LET r == AppendHook(h, ct.requestHooks, HookOf(id, n))
         IN  ApplyHookOptions(r.heap, [ct EXCEPT !.requestHooks = r.slice], options, id, n + 1)
    ELSE LET r == AppendHook(h, ct.responseHooks, HookOf(id, n))
         IN  ApplyHookOptions(r.heap, [ct EXCEPT !.responseHooks = r.slice], options, id, n + 1)

\* the hooks a client made from parent with these options is to have
RECURSIVE HooksWith(_, _, _, _)
HooksWith(hooks, options, id, n) ==
    IF n > Len(options) THEN hooks
    ELSE IF options[n] = "RequestHook"
    THEN HooksWith([hooks EXCEPT !.requestHooks = Append(@, HookOf(id, n))], options, id, n + 1)
    ELSE HooksWith([hooks EXCEPT !.responseHooks = Append(@, HookOf(id, n))], options, id, n + 1)

\* the hooks Do applies for a client
HooksApplied(h, ct) ==
    [requestHooks |-> Contents(h, ct.requestHooks), responseHooks |-> Contents(h, ct.responseHooks)]

\* ct.Apply(options...): cp := *ct, then the options.  [heap, ct]
ClientApplyTo(h, ct, options, id, via) ==
    ApplyHookOptions(h, [ct EXCEPT !.via = via], options, id, 1)

\* the client With makes: client := *from(ctx), the two slices cloned, then
\* the options.  [heap, ct]
ClientWithFrom(h, ct, options, id) ==
    LET rq == CloneHooks(h, ct.requestHooks)
        rs == CloneHooks(rq.heap, ct.responseHooks)
    IN  ApplyHookOptions(rs.heap, [requestHooks |-> rq.slice, responseHooks |-> rs.slice,
                                   via |-> "With"], options, id, 1)

\* New(options...): defaultClient.Apply(options...)
ClientNew ==
    /\ Len(clients) <= MaxDerived
    /\ \E options \in HookOptionLists :
         \E r \in {ClientApplyTo(hookArrays, clients[1], options, Len(clients) + 1, "New")} :
           /\ hookArrays' = r.heap
           /\ clients' = Append(clients, r.ct)
           /\ built' = Append(built, HooksWith(HooksApplied(hookArrays, clients[1]), options,
                                               Len(clients) + 1, 1))
    /\ UNCHANGED <<withRet, chatVars, toolVars, registryVars, callVars, codecVars, doVars>>

\* ct.Apply(options...) on a client the caller holds: Default, or one that
\* New or Apply returned
ClientApply ==
    /\ Len(clients) <= MaxDerived
    /\ \E p \in DOMAIN clients, options \in HookOptionLists :
         /\ clients[p].via # "With"
         /\ \E r \in {ClientApplyTo(hookArrays, clients[p], options, Len(clients) + 1, "Apply")} :
              /\ hookArrays' = r.heap
              /\ clients' = Append(clients, r.ct)
              /\ built' = Append(built, HooksWith(HooksApplied(hookArrays, clients[p]), options,
                                                  Len(clients) + 1, 1))
    /\ UNCHANGED <<withRet, chatVars, toolVars, registryVars, callVars, codecVars, doVars>>

\* With(ctx, options...): ctx is the background context, which holds no
\* client (from gives Default), or a context With returned; with no options
\* ctx is returned as it is
ClientWith ==
    /\ Len(clients) <= MaxDerived
    /\ \E p \in DOMAIN clients, options \in HookOptionLists :
         /\ clients[p].via \in {"Default", "With"}
         /\ IF options = <<>>
            THEN /\ withRet' = [ctx |-> p, options |-> options, ret |-> p]
                 /\ UNCHANGED <<hookArrays, clients, built>>
            ELSE \E r \in {ClientWithFrom(hookArrays, clients[p], options, Len(clients) + 1)} :
                   /\ hookArrays' = r.heap
                   /\ clients' = Append(clients, r.ct)
                   /\ built' = Append(built, HooksWith(HooksApplied(hookArrays, clients[p]),
                                                       options, Len(clients) + 1, 1))
                   /\ withRet' = [ctx |-> p, options |-> options, ret |-> Len(clients) + 1]
    /\ UNCHANGED <<chatVars, toolVars, registryVars, callVars, codecVars, doVars>>

\* there is the default client, which has no hooks
ClientInit ==
    /\ ChatIdle
    /\ ToolIdle
    /\ RegistryIdle
    /\ CallIdle
    /\ CodecIdle
    /\ DoIdle
    /\ hookArrays = <<>>
    /\ clients = <<[requestHooks |-> NilSlice, responseHooks |-> NilSlice, via |-> "Default"]>>
    /\ built = <<[requestHooks |-> <<>>, responseHooks |-> <<>>]>>
    /\ withRet = Nil

ClientNext == ClientNew \/ ClientApply \/ ClientWith

ClientSpec == ClientInit /\ [][ClientNext]_vars

\* C30 as stated: every client applies the hooks it was made with, those its
\* parent had then followed by the hooks of its own options, whatever clients
\* were derived and whatever hooks were added since; and With with no
\* options returns the context it was given.
C30_IndependentHooks ==
    /\ \A k \in DOMAIN clients : HooksApplied(hookArrays, clients[k]) = built[k]
    /\ (withRet # Nil /\ withRet.options = <<>>) => withRet.ret = withRet.ctx

====
